---- MODULE Spec2Model ----
(***************************************************************************)
(* UI state capture system: the plan compiler (agent/planner.py) and the   *)
(* resilient step interpreter (agent/executor.py).                         *)
(*                                                                         *)
(* A Python str is a sequence of one-character strings, so that lower(),   *)
(* split(), strip(), `in` and slicing are computed character by character. *)
(* Chars(lit) is the character sequence of the literal lit of the program. *)
(* TLA+ strings are used only for dict keys and for control positions.     *)
(***************************************************************************)
EXTENDS Integers, Sequences, FiniteSets, TLC

\* Python's None.  No str equals it: its one element is not a character.
None == << "<None>" >>

\* A path on disk: absent, or a file with its content.
NoFile == [exists |-> FALSE, content |-> << >>]

File(content) == [exists |-> TRUE, content |-> content]

(***************************************************************************)
(* String primitives                                                       *)
(***************************************************************************)

\* The character sequence of each str literal of the program.
Chars(lit) ==
    CASE lit = "ABCDEFGHIJKLMNOPQRSTUVWXYZ" ->
          << "A", "B", "C", "D", "E", "F", "G", "H", "I", "J", "K", "L",
             "M", "N", "O", "P", "Q", "R", "S", "T", "U", "V", "W", "X",
             "Y", "Z" >>
      [] lit = "abcdefghijklmnopqrstuvwxyz" ->
          << "a", "b", "c", "d", "e", "f", "g", "h", "i", "j", "k", "l",
             "m", "n", "o", "p", "q", "r", "s", "t", "u", "v", "w", "x",
             "y", "z" >>
      [] lit = "in" ->
          << "i", "n" >>
      [] lit = "on" ->
          << "o", "n" >>
      [] lit = "at" ->
          << "a", "t" >>
      [] lit = "for" ->
          << "f", "o", "r" >>
      [] lit = "name" ->
          << "n", "a", "m", "e" >>
      [] lit = "named" ->
          << "n", "a", "m", "e", "d" >>
      [] lit = "called" ->
          << "c", "a", "l", "l", "e", "d" >>
      [] lit = "title" ->
          << "t", "i", "t", "l", "e" >>
      [] lit = "the" ->
          << "t", "h", "e" >>
      [] lit = "a" ->
          << "a" >>
      [] lit = "an" ->
          << "a", "n" >>
      [] lit = " with " ->
          << " ", "w", "i", "t", "h", " " >>
      [] lit = " by " ->
          << " ", "b", "y", " " >>
      [] lit = "open" ->
          << "o", "p", "e", "n" >>
      [] lit = "linear_home" ->
          << "l", "i", "n", "e", "a", "r", "_", "h", "o", "m", "e" >>
      [] lit = "goto" ->
          << "g", "o", "t", "o" >>
      [] lit = "Projects" ->
          << "P", "r", "o", "j", "e", "c", "t", "s" >>
      [] lit = "projects_list" ->
          << "p", "r", "o", "j", "e", "c", "t", "s", "_", "l", "i", "s",
             "t" >>
      [] lit = "click" ->
          << "c", "l", "i", "c", "k" >>
      [] lit = "New project" ->
          << "N", "e", "w", " ", "p", "r", "o", "j", "e", "c", "t" >>
      [] lit = "create_project_modal_open" ->
          << "c", "r", "e", "a", "t", "e", "_", "p", "r", "o", "j", "e",
             "c", "t", "_", "m", "o", "d", "a", "l", "_", "o", "p", "e",
             "n" >>
      [] lit = "fill" ->
          << "f", "i", "l", "l" >>
      [] lit = "Name" ->
          << "N", "a", "m", "e" >>
      [] lit = "project_form_filled" ->
          << "p", "r", "o", "j", "e", "c", "t", "_", "f", "o", "r", "m",
             "_", "f", "i", "l", "l", "e", "d" >>
      [] lit = "submit" ->
          << "s", "u", "b", "m", "i", "t" >>
      [] lit = "project_submit_clicked" ->
          << "p", "r", "o", "j", "e", "c", "t", "_", "s", "u", "b", "m",
             "i", "t", "_", "c", "l", "i", "c", "k", "e", "d" >>
      [] lit = "assert" ->
          << "a", "s", "s", "e", "r", "t" >>
      [] lit = "Project" ->
          << "P", "r", "o", "j", "e", "c", "t" >>
      [] lit = "project_created" ->
          << "p", "r", "o", "j", "e", "c", "t", "_", "c", "r", "e", "a",
             "t", "e", "d" >>
      [] lit = "new " ->
          << "n", "e", "w", " " >>
      [] lit = "created" ->
          << "c", "r", "e", "a", "t", "e", "d" >>
      [] lit = "s" ->
          << "s" >>
      [] lit = "new" ->
          << "n", "e", "w" >>
      [] lit = "<AUTO_NAME>" ->
          << "<", "A", "U", "T", "O", "_", "N", "A", "M", "E", ">" >>
      [] lit = "Notion" ->
          << "N", "o", "t", "i", "o", "n" >>
      [] lit = "page" ->
          << "p", "a", "g", "e" >>
      [] lit = "New page" ->
          << "N", "e", "w", " ", "p", "a", "g", "e" >>
      [] lit = "Untitled" ->
          << "U", "n", "t", "i", "t", "l", "e", "d" >>
      [] lit = "Asana" ->
          << "A", "s", "a", "n", "a" >>
      [] lit = "project" ->
          << "p", "r", "o", "j", "e", "c", "t" >>
      [] lit = "Linear" ->
          << "L", "i", "n", "e", "a", "r" >>
      [] lit = "issue" ->
          << "i", "s", "s", "u", "e" >>
      [] lit = "Issues" ->
          << "I", "s", "s", "u", "e", "s" >>
      [] lit = "issues_list" ->
          << "i", "s", "s", "u", "e", "s", "_", "l", "i", "s", "t" >>
      [] lit = "New issue" ->
          << "N", "e", "w", " ", "i", "s", "s", "u", "e" >>
      [] lit = "new_issue_modal_open" ->
          << "n", "e", "w", "_", "i", "s", "s", "u", "e", "_", "m", "o",
             "d", "a", "l", "_", "o", "p", "e", "n" >>
      [] lit = "Title" ->
          << "T", "i", "t", "l", "e" >>
      [] lit = "issue_title_filled" ->
          << "i", "s", "s", "u", "e", "_", "t", "i", "t", "l", "e", "_",
             "f", "i", "l", "l", "e", "d" >>
      [] lit = "Create issue" ->
          << "C", "r", "e", "a", "t", "e", " ", "i", "s", "s", "u", "e" >>
      [] lit = "issue_created_button_clicked" ->
          << "i", "s", "s", "u", "e", "_", "c", "r", "e", "a", "t", "e",
             "d", "_", "b", "u", "t", "t", "o", "n", "_", "c", "l", "i",
             "c", "k", "e", "d" >>
      [] lit = "issue_created" ->
          << "i", "s", "s", "u", "e", "_", "c", "r", "e", "a", "t", "e",
             "d" >>
      [] lit = "filter" ->
          << "f", "i", "l", "t", "e", "r" >>
      [] lit = "query" ->
          << "q", "u", "e", "r", "y" >>
      [] lit = "filtered" ->
          << "f", "i", "l", "t", "e", "r", "e", "d" >>
      [] lit = "<AUTO_FILTER>" ->
          << "<", "A", "U", "T", "O", "_", "F", "I", "L", "T", "E", "R",
             ">" >>
      [] lit = "target " ->
          << "t", "a", "r", "g", "e", "t", " " >>
      [] lit = "value" ->
          << "v", "a", "l", "u", "e" >>
      [] lit = "<NEW_VALUE>" ->
          << "<", "N", "E", "W", "_", "V", "A", "L", "U", "E", ">" >>
      [] lit = "updated" ->
          << "u", "p", "d", "a", "t", "e", "d" >>
      [] lit = "delete" ->
          << "d", "e", "l", "e", "t", "e" >>
      [] lit = "confirm" ->
          << "c", "o", "n", "f", "i", "r", "m" >>
      [] lit = "deleted" ->
          << "d", "e", "l", "e", "t", "e", "d" >>
      [] lit = "<UNKNOWN_APP>" ->
          << "<", "U", "N", "K", "N", "O", "W", "N", "_", "A", "P", "P",
             ">" >>
      [] lit = "item" ->
          << "i", "t", "e", "m" >>
      [] lit = "create" ->
          << "c", "r", "e", "a", "t", "e" >>
      [] lit = "update" ->
          << "u", "p", "d", "a", "t", "e" >>
      [] lit = "opened" ->
          << "o", "p", "e", "n", "e", "d" >>
      [] lit = "!\"#$%&'()*+,-./:;<=>?@[\\]^_{|}~" ->
          << "!", "\"", "#", "$", "%", "&", "'", "(", ")", "*", "+",
             ",", "-", ".", "/", ":", ";", "<", "=", ">", "?", "@", "[",
             "\\", "]", "^", "_", "{", "|", "}", "~" >>
      [] lit = "add" ->
          << "a", "d", "d" >>
      [] lit = "make" ->
          << "m", "a", "k", "e" >>
      [] lit = "show" ->
          << "s", "h", "o", "w" >>
      [] lit = "rename" ->
          << "r", "e", "n", "a", "m", "e" >>
      [] lit = "remove" ->
          << "r", "e", "m", "o", "v", "e" >>
      [] lit = "ticket" ->
          << "t", "i", "c", "k", "e", "t" >>
      [] lit = "view" ->
          << "v", "i", "e", "w" >>
      [] lit = "yes" ->
          << "y", "e", "s" >>
      [] lit = "no" ->
          << "n", "o" >>
      [] lit = "true" ->
          << "t", "r", "u", "e" >>
      [] lit = "false" ->
          << "f", "a", "l", "s", "e" >>
      [] lit = "off" ->
          << "o", "f", "f" >>
      [] lit = "null" ->
          << "n", "u", "l", "l" >>
      [] lit = "0123456789" ->
          << "0", "1", "2", "3", "4", "5", "6", "7", "8", "9" >>
      [] lit = "~" ->
          << "~" >>
      [] lit = "linear_state.json" ->
          << "l", "i", "n", "e", "a", "r", "_", "s", "t", "a", "t", "e",
             ".", "j", "s", "o", "n" >>
      [] lit = "notion_state.json" ->
          << "n", "o", "t", "i", "o", "n", "_", "s", "t", "a", "t", "e",
             ".", "j", "s", "o", "n" >>
      [] lit = "asana_state.json" ->
          << "a", "s", "a", "n", "a", "_", "s", "t", "a", "t", "e", ".",
             "j", "s", "o", "n" >>
      [] lit = "https://linear.app/" ->
          << "h", "t", "t", "p", "s", ":", "/", "/", "l", "i", "n", "e",
             "a", "r", ".", "a", "p", "p", "/" >>
      [] lit = "https://www.notion.so/" ->
          << "h", "t", "t", "p", "s", ":", "/", "/", "w", "w", "w", ".",
             "n", "o", "t", "i", "o", "n", ".", "s", "o", "/" >>
      [] lit = "https://app.asana.com/" ->
          << "h", "t", "t", "p", "s", ":", "/", "/", "a", "p", "p", ".",
             "a", "s", "a", "n", "a", ".", "c", "o", "m", "/" >>
      [] lit = "new project" ->
          << "n", "e", "w", " ", "p", "r", "o", "j", "e", "c", "t" >>
      [] lit = "Blank project" ->
          << "B", "l", "a", "n", "k", " ", "p", "r", "o", "j", "e", "c",
             "t" >>
      [] lit = "Create project" ->
          << "C", "r", "e", "a", "t", "e", " ", "p", "r", "o", "j", "e",
             "c", "t" >>
      [] lit = "Add project" ->
          << "A", "d", "d", " ", "p", "r", "o", "j", "e", "c", "t" >>
      [] lit = "Create" ->
          << "C", "r", "e", "a", "t", "e" >>
      [] lit = "create project" ->
          << "c", "r", "e", "a", "t", "e", " ", "p", "r", "o", "j", "e",
             "c", "t" >>
      [] lit = "Save" ->
          << "S", "a", "v", "e" >>
      [] lit = "Submit" ->
          << "S", "u", "b", "m", "i", "t" >>
      [] lit = "Done" ->
          << "D", "o", "n", "e" >>
      [] lit = "OK" ->
          << "O", "K" >>
      [] lit = "Continue" ->
          << "C", "o", "n", "t", "i", "n", "u", "e" >>
      [] lit = "Add" ->
          << "A", "d", "d" >>
      [] lit = "select" ->
          << "s", "e", "l", "e", "c", "t" >>
      [] lit = "_" ->
          << "_" >>
      [] lit = "unknown" ->
          << "u", "n", "k", "n", "o", "w", "n" >>
      [] lit = ".png" ->
          << ".", "p", "n", "g" >>
      [] lit = "sha256:" ->
          << "s", "h", "a", "2", "5", "6", ":" >>
      [] lit = "Create a project named Apollo in Linear" ->
          << "C", "r", "e", "a", "t", "e", " ", "a", " ", "p", "r", "o",
             "j", "e", "c", "t", " ", "n", "a", "m", "e", "d", " ", "A",
             "p", "o", "l", "l", "o", " ", "i", "n", " ", "L", "i", "n",
             "e", "a", "r" >>
      [] lit = "create project called Test Rocket" ->
          << "c", "r", "e", "a", "t", "e", " ", "p", "r", "o", "j", "e",
             "c", "t", " ", "c", "a", "l", "l", "e", "d", " ", "T", "e",
             "s", "t", " ", "R", "o", "c", "k", "e", "t" >>
      [] lit = "filter issues by priority high" ->
          << "f", "i", "l", "t", "e", "r", " ", "i", "s", "s", "u", "e",
             "s", " ", "b", "y", " ", "p", "r", "i", "o", "r", "i", "t",
             "y", " ", "h", "i", "g", "h" >>
      [] lit = "New issue  Login bug\ton Linear" ->
          << "N", "e", "w", " ", "i", "s", "s", "u", "e", " ", " ", "L",
             "o", "g", "i", "n", " ", "b", "u", "g", "\t", "o", "n",
             " ", "L", "i", "n", "e", "a", "r" >>
      [] lit = "  create project called 007 " ->
          << " ", " ", "c", "r", "e", "a", "t", "e", " ", "p", "r", "o",
             "j", "e", "c", "t", " ", "c", "a", "l", "l", "e", "d", " ",
             "0", "0", "7", " " >>
      [] lit = "Create a page with title" ->
          << "C", "r", "e", "a", "t", "e", " ", "a", " ", "p", "a", "g",
             "e", " ", "w", "i", "t", "h", " ", "t", "i", "t", "l", "e" >>
      [] lit = "Filter issues with label bug by Priority High" ->
          << "F", "i", "l", "t", "e", "r", " ", "i", "s", "s", "u", "e",
             "s", " ", "w", "i", "t", "h", " ", "l", "a", "b", "e", "l",
             " ", "b", "u", "g", " ", "b", "y", " ", "P", "r", "i", "o",
             "r", "i", "t", "y", " ", "H", "i", "g", "h" >>
      [] lit = "filter issues with label bug " ->
          << "f", "i", "l", "t", "e", "r", " ", "i", "s", "s", "u", "e",
             "s", " ", "w", "i", "t", "h", " ", "l", "a", "b", "e", "l",
             " ", "b", "u", "g", " " >>
      [] lit = " by priority high" ->
          << " ", "b", "y", " ", "p", "r", "i", "o", "r", "i", "t", "y",
             " ", "h", "i", "g", "h" >>
      [] lit = "Exit" ->
          << "E", "x", "i", "t" >>
      [] lit = " go " ->
          << " ", "g", "o", " " >>
      [] lit = "exit" ->
          << "e", "x", "i", "t" >>
      [] lit = "quit" ->
          << "q", "u", "i", "t" >>
      [] lit = "hover" ->
          << "h", "o", "v", "e", "r" >>
      [] lit = "Menu" ->
          << "M", "e", "n", "u" >>
      [] lit = "Status" ->
          << "S", "t", "a", "t", "u", "s" >>
      [] lit = "orphan" ->
          << "o", "r", "p", "h", "a", "n" >>
      [] lit = "2024" ->
          << "2", "0", "2", "4" >>
      [] lit = "My PROJECTS Apollo created" ->
          << "M", "y", " ", "P", "R", "O", "J", "E", "C", "T", "S", " ",
             "A", "p", "o", "l", "l", "o", " ", "c", "r", "e", "a", "t",
             "e", "d" >>
      [] lit = "about:blank" ->
          << "a", "b", "o", "u", "t", ":", "b", "l", "a", "n", "k" >>
      [] lit = "open liner, then Notion!" ->
          << "o", "p", "e", "n", " ", "l", "i", "n", "e", "r", ",", " ",
             "t", "h", "e", "n", " ", "N", "o", "t", "i", "o", "n", "!" >>
      [] lit = "Add a filter to Projects" ->
          << "A", "d", "d", " ", "a", " ", "f", "i", "l", "t", "e", "r",
             " ", "t", "o", " ", "P", "r", "o", "j", "e", "c", "t", "s" >>
      [] lit = "Filter issues by priority high" ->
          << "F", "i", "l", "t", "e", "r", " ", "i", "s", "s", "u", "e",
             "s", " ", "b", "y", " ", "p", "r", "i", "o", "r", "i", "t",
             "y", " ", "h", "i", "g", "h" >>
      [] lit = "Open Notion !" ->
          << "O", "p", "e", "n", " ", "N", "o", "t", "i", "o", "n", " ",
             "!" >>
      [] lit = "xyz123 ???" ->
          << "x", "y", "z", "1", "2", "3", " ", "?", "?", "?" >>
      [] lit = "delete the old pages, show tickets" ->
          << "d", "e", "l", "e", "t", "e", " ", "t", "h", "e", " ", "o",
             "l", "d", " ", "p", "a", "g", "e", "s", ",", " ", "s", "h",
             "o", "w", " ", "t", "i", "c", "k", "e", "t", "s" >>
      [] lit = "Rename" ->
          << "R", "e", "n", "a", "m", "e" >>
      [] lit = " the ticket" ->
          << " ", "t", "h", "e", " ", "t", "i", "c", "k", "e", "t" >>
      [] lit = " Login-bug" ->
          << " ", "L", "o", "g", "i", "n", "-", "b", "u", "g" >>
      [] lit = "apollo" ->
          << "a", "p", "o", "l", "l", "o" >>
      [] lit = "priority high" ->
          << "p", "r", "i", "o", "r", "i", "t", "y", " ", "h", "i", "g",
             "h" >>
      [] lit = "login bug on linear" ->
          << "l", "o", "g", "i", "n", " ", "b", "u", "g", " ", "o", "n",
             " ", "l", "i", "n", "e", "a", "r" >>
      [] lit = "007" ->
          << "0", "0", "7" >>
      [] lit = "test rocket" ->
          << "t", "e", "s", "t", " ", "r", "o", "c", "k", "e", "t" >>
      [] lit = "test" ->
          << "t", "e", "s", "t" >>
      [] lit = "rocket" ->
          << "r", "o", "c", "k", "e", "t" >>
      [] lit = "open notion" ->
          << "o", "p", "e", "n", " ", "n", "o", "t", "i", "o", "n" >>
      [] lit = "01_open.png" ->
          << "0", "1", "_", "o", "p", "e", "n", ".", "p", "n", "g" >>
      [] lit = "06_assert.png" ->
          << "0", "6", "_", "a", "s", "s", "e", "r", "t", ".", "p", "n",
             "g" >>
      [] lit = "navigate" ->
          << "n", "a", "v", "i", "g", "a", "t", "e" >>
      [] lit = "items" ->
          << "i", "t", "e", "m", "s" >>

UpperChars == Chars("ABCDEFGHIJKLMNOPQRSTUVWXYZ")

LowerChars == Chars("abcdefghijklmnopqrstuvwxyz")

\* str.lower() on one character.
LowerChar(c) ==
    IF \E n \in 1..26 : UpperChars[n] = c
    THEN LowerChars[CHOOSE n \in 1..26 : UpperChars[n] = c]
    ELSE c

\* str.lower()
Lower(s) == [n \in 1..Len(s) |-> LowerChar(s[n])]

\* Characters str.split() and str.strip() treat as whitespace.
Whitespace == {" ", "\t", "\n", "\r", "\f"}

\* The maximal runs of the characters of s at the positions where keep is
\* TRUE, in order.
RunsOf(s, keep) ==
    LET starts == {n \in 1..Len(s) : keep[n] /\ (n = 1 \/ ~keep[n - 1])}
        ends == {n \in 1..Len(s) : keep[n] /\ (n = Len(s) \/ ~keep[n + 1])}
        Nth(set, j) == CHOOSE x \in set :
                           Cardinality({y \in set : y < x}) = j - 1
    IN  [j \in 1..Cardinality(starts) |->
            SubSeq(s, Nth(starts, j), Nth(ends, j))]

\* str.split(): maximal runs of non-whitespace characters, in order.
Split(s) == RunsOf(s, [n \in 1..Len(s) |-> s[n] \notin Whitespace])

\* " ".join(tokens)
RECURSIVE JoinSpace(_)
JoinSpace(toks) ==
    IF toks = <<>> THEN <<>>
    ELSE IF Len(toks) = 1 THEN Head(toks)
    ELSE Head(toks) \o <<" ">> \o JoinSpace(Tail(toks))

\* x in toks
Member(toks, x) == \E n \in 1..Len(toks) : toks[n] = x

\* toks.index(x) for x in toks (1-based here).
IndexOf(toks, x) == CHOOSE n \in 1..Len(toks) :
                        /\ toks[n] = x
                        /\ \A m \in 1..(n - 1) : toks[m] # x

\* toks[n:] with a 1-based first kept position n.
DropFirst(toks, n) == SubSeq(toks, n, Len(toks))

\* str.strip()
RECURSIVE LStrip(_)
LStrip(s) ==
    IF s # <<>> /\ Head(s) \in Whitespace THEN LStrip(Tail(s)) ELSE s

RECURSIVE RStrip(_)
RStrip(s) ==
    IF s # <<>> /\ s[Len(s)] \in Whitespace
    THEN RStrip(SubSeq(s, 1, Len(s) - 1))
    ELSE s

Strip(s) == RStrip(LStrip(s))

\* Position of the first occurrence of kw in s, 0 when kw does not occur
\* (`kw in s`, and the split point of s.split(kw, 1)).
FindFirst(s, kw) ==
    LET hits == {n \in 1..(Len(s) - Len(kw) + 1) :
                    SubSeq(s, n, n + Len(kw) - 1) = kw}
    IN  IF hits = {} THEN 0
        ELSE CHOOSE n \in hits : \A m \in hits : n <= m

\* kw in s
Contains(s, kw) == FindFirst(s, kw) # 0

\* Truthiness of an optional str: `if x`, `x or default`.
Truthy(x) == x # None /\ x # <<>>

OrElse(x, default) == IF Truthy(x) THEN x ELSE default

(***************************************************************************)
(* planner.py: value extractors                                            *)
(***************************************************************************)

Prepositions == {Chars("in"), Chars("on"), Chars("at"), Chars("for")}

markers == {Chars("name"), Chars("named"), Chars("called"), Chars("title")}

Fillers == {Chars("in"), Chars("on"), Chars("at"), Chars("the"), Chars("a"),
            Chars("an"), Chars("called")}

\* re.findall(r"[a-zA-Z]+", s): maximal runs of ASCII letters, in order.
IsAlpha(c) == \E n \in 1..26 : c = UpperChars[n] \/ c = LowerChars[n]

AlphaRuns(s) == RunsOf(s, [n \in 1..Len(s) |-> IsAlpha(s[n])])

\* Step 1 of extract_possible_name: drop a trailing "<preposition> <app>".
StripTrailingApp(toks, app) ==
    IF /\ Truthy(app)
       /\ Len(toks) >= 2
       /\ toks[Len(toks)] = Lower(app)
       /\ toks[Len(toks) - 1] \in Prepositions
    THEN SubSeq(toks, 1, Len(toks) - 2)
    ELSE toks

\* CutAtMarker slicing at the marker instead of after it.
CutAtMarker_keeps_marker(toks) ==
    LET js == {j \in 1..Len(toks) : toks[j] \in markers /\ j + 1 <= Len(toks)}
    IN  IF js = {} THEN toks
        ELSE DropFirst(toks, CHOOSE j \in js : \A m \in js : j <= m)

\* CutAtMarker without the test for a successor token.
CutAtMarker_cuts_final(toks) ==
    LET js == {j \in 1..Len(toks) : toks[j] \in markers}
    IN  IF js = {} THEN toks
        ELSE DropFirst(toks, (CHOOSE j \in js : \A m \in js : j <= m) + 1)

\* Step 2: keep what follows the first marker that has a successor token.
CutAtMarker(toks) ==
    LET js == {j \in 1..Len(toks) : toks[j] \in markers /\ j + 1 <= Len(toks)}
    IN  IF js = {} THEN toks
        ELSE DropFirst(toks, (CHOOSE j \in js : \A m \in js : j <= m) + 1)

\* Step 3: strip leading filler words.
RECURSIVE StripFillers(_)
StripFillers(toks) ==
    IF toks # <<>> /\ Head(toks) \in Fillers
    THEN StripFillers(Tail(toks))
    ELSE toks

\* Step 4: drop leading app tokens.
RECURSIVE StripLeadingApp(_, _)
StripLeadingApp(toks, app) ==
    IF Truthy(app) /\ toks # <<>> /\ Head(toks) = Lower(app)
    THEN StripLeadingApp(Tail(toks), app)
    ELSE toks

extract_possible_name(p, obj, app) ==
    IF ~Truthy(obj) THEN None
    ELSE
      LET tokens == Split(Lower(p)) IN
      IF ~Member(tokens, obj) THEN None
      ELSE
        LET name_tokens == DropFirst(tokens, IndexOf(tokens, obj) + 1) IN
        IF name_tokens = <<>> THEN None
        ELSE
          LET t1 == StripTrailingApp(name_tokens, app) IN
          IF t1 = <<>> THEN None
          ELSE
            LET t4 == StripLeadingApp(StripFillers(CutAtMarker(t1)), app) IN
            IF t4 = <<>> THEN None ELSE JoinSpace(t4)

\* lower.split(kw, 1)[1].strip() or None
AfterKeyword(lower, kw) ==
    LET at == FindFirst(lower, kw)
        rest == Strip(SubSeq(lower, at + Len(kw), Len(lower)))
    IN  IF rest = <<>> THEN None ELSE rest

\* extract_filter_value trying " with " before " by ".
extract_filter_value_with_first(p) ==
    LET lower == Lower(p) IN
    IF Contains(lower, Chars(" with "))
    THEN AfterKeyword(lower, Chars(" with "))
    ELSE IF Contains(lower, Chars(" by "))
         THEN AfterKeyword(lower, Chars(" by "))
    ELSE None

extract_filter_value(p) ==
    LET lower == Lower(p) IN
    IF Contains(lower, Chars(" by ")) THEN AfterKeyword(lower, Chars(" by "))
    ELSE IF Contains(lower, Chars(" with "))
         THEN AfterKeyword(lower, Chars(" with "))
    ELSE None

(***************************************************************************)
(* planner.py: step templates                                              *)
(***************************************************************************)

\* The six steps that the Asana/project and the Linear/project branches of
\* _steps_create both return.
ProjectFlow(app, title) ==
    << [action |-> Chars("open"), app |-> app,
        state_label |-> Chars("linear_home")],
       [action |-> Chars("goto"), section |-> Chars("Projects"),
        state_label |-> Chars("projects_list")],
       [action |-> Chars("click"), text |-> Chars("New project"),
        state_label |-> Chars("create_project_modal_open")],
       [action |-> Chars("fill"), field |-> Chars("Name"), val |-> title,
        state_label |-> Chars("project_form_filled")],
       [action |-> Chars("submit"),
        state_label |-> Chars("project_submit_clicked")],
       [action |-> Chars("assert"), token |-> Chars("Project"),
        state_label |-> Chars("project_created")] >>

\* GenericCreate without the plural of the section name.
GenericCreate_no_plural(obj, app, title) ==
    << [action |-> Chars("open"), app |-> app],
       [action |-> Chars("goto"), section |-> obj],
       [action |-> Chars("click"), text |-> Chars("new ") \o obj],
       [action |-> Chars("fill"), field |-> Chars("name"), val |-> title],
       [action |-> Chars("submit")],
       [action |-> Chars("assert"), token |-> Chars("created")] >>

\* The generic fallback of _steps_create.
GenericCreate(obj, app, title) ==
    LET section == IF Truthy(obj) THEN obj \o Chars("s") ELSE None
        click_text == IF Truthy(obj) THEN Chars("new ") \o obj ELSE Chars("new")
    IN  << [action |-> Chars("open"), app |-> app] >>
        \o (IF Truthy(section)
            THEN << [action |-> Chars("goto"), section |-> section] >>
            ELSE << >>)
        \o << [action |-> Chars("click"), text |-> click_text],
              [action |-> Chars("fill"), field |-> Chars("name"), val |-> title],
              [action |-> Chars("submit")],
              [action |-> Chars("assert"), token |-> Chars("created")] >>

_steps_create(obj, app, name) ==
    LET title == OrElse(name, Chars("<AUTO_NAME>")) IN
    IF app = Chars("Notion") /\ obj = Chars("page") THEN
        << [action |-> Chars("open"), app |-> app],
           [action |-> Chars("click"), text |-> Chars("New page")],
           [action |-> Chars("fill"), field |-> Chars("Untitled"), val |-> title],
           [action |-> Chars("assert"), token |-> title] >>
    ELSE IF app = Chars("Asana") /\ obj = Chars("project")
    THEN ProjectFlow(app, title)
    ELSE IF app = Chars("Linear") /\ obj = Chars("project")
    THEN ProjectFlow(app, title)
    ELSE IF app = Chars("Linear") /\ obj = Chars("issue") THEN
        << [action |-> Chars("open"), app |-> app,
            state_label |-> Chars("linear_home")],
           [action |-> Chars("goto"), section |-> Chars("Issues"),
            state_label |-> Chars("issues_list")],
           [action |-> Chars("click"), text |-> Chars("New issue"),
            state_label |-> Chars("new_issue_modal_open")],
           [action |-> Chars("fill"), field |-> Chars("Title"), val |-> title,
            state_label |-> Chars("issue_title_filled")],
           [action |-> Chars("click"), text |-> Chars("Create issue"),
            state_label |-> Chars("issue_created_button_clicked")],
           [action |-> Chars("assert"), token |-> title,
            state_label |-> Chars("issue_created")] >>
    ELSE GenericCreate(obj, app, title)

\* _steps_filter without the placeholder for missing criteria.
_steps_filter_no_placeholder(obj, app, criteria) ==
    << [action |-> Chars("open"), app |-> app],
       [action |-> Chars("goto"), section |-> obj \o Chars("s")],
       [action |-> Chars("click"), text |-> Chars("filter")],
       [action |-> Chars("fill"), field |-> Chars("query"), val |-> criteria],
       [action |-> Chars("submit")],
       [action |-> Chars("assert"), token |-> Chars("filtered")] >>

_steps_filter(obj, app, criteria) ==
    << [action |-> Chars("open"), app |-> app],
       [action |-> Chars("goto"), section |-> obj \o Chars("s")],
       [action |-> Chars("click"), text |-> Chars("filter")],
       [action |-> Chars("fill"), field |-> Chars("query"),
        val |-> OrElse(criteria, Chars("<AUTO_FILTER>"))],
       [action |-> Chars("submit")],
       [action |-> Chars("assert"), token |-> Chars("filtered")] >>

_steps_update(obj, app, name) ==
    << [action |-> Chars("open"), app |-> app],
       [action |-> Chars("goto"), section |-> obj \o Chars("s")],
       [action |-> Chars("click"),
        text |-> OrElse(name, Chars("target ") \o obj)],
       [action |-> Chars("fill"), field |-> Chars("value"),
        val |-> Chars("<NEW_VALUE>")],
       [action |-> Chars("submit")],
       [action |-> Chars("assert"), token |-> Chars("updated")] >>

\* A delete template that tags the confirmation step "confirm".
_steps_delete_confirm(obj, app, name) ==
    << [action |-> Chars("open"), app |-> app],
       [action |-> Chars("goto"), section |-> obj \o Chars("s")],
       [action |-> Chars("click"),
        text |-> OrElse(name, Chars("target ") \o obj)],
       [action |-> Chars("click"), text |-> Chars("delete")],
       [action |-> Chars("confirm")],
       [action |-> Chars("assert"), token |-> Chars("deleted")] >>

_steps_delete(obj, app, name) ==
    << [action |-> Chars("open"), app |-> app],
       [action |-> Chars("goto"), section |-> obj \o Chars("s")],
       [action |-> Chars("click"),
        text |-> OrElse(name, Chars("target ") \o obj)],
       [action |-> Chars("click"), text |-> Chars("delete")],
       [action |-> Chars("submit")],
       [action |-> Chars("assert"), token |-> Chars("deleted")] >>

\* _steps_open without its final assert step.
_steps_open_no_assert(obj, app) ==
    << [action |-> Chars("open"), app |-> app],
       [action |-> Chars("goto"), section |-> obj \o Chars("s")] >>

_steps_open(obj, app) ==
    << [action |-> Chars("open"), app |-> app],
       [action |-> Chars("goto"), section |-> obj \o Chars("s")],
       [action |-> Chars("assert"), token |-> obj] >>

\* The sentinel substituted for an unresolved app.
UnknownApp == Chars("<UNKNOWN_APP>")

\* _build_steps whose fallback forgets the assert step.
_build_steps_short_fallback(intent, obj0, app0, p) ==
    LET app == IF app0 = None THEN UnknownApp ELSE app0
        obj == IF obj0 = None THEN Chars("item") ELSE obj0
        name == extract_possible_name(p, obj, app)
    IN  IF intent = Chars("create") THEN _steps_create(obj, app, name)
        ELSE IF intent = Chars("filter")
        THEN _steps_filter(obj, app, extract_filter_value(p))
        ELSE IF intent = Chars("update") THEN _steps_update(obj, app, name)
        ELSE IF intent = Chars("delete") THEN _steps_delete(obj, app, name)
        ELSE IF intent = Chars("open") THEN _steps_open(obj, app)
        ELSE << [action |-> Chars("open"), app |-> app] >>

_build_steps(intent, obj0, app0, p) ==
    LET app == IF app0 = None THEN UnknownApp ELSE app0
        obj == IF obj0 = None THEN Chars("item") ELSE obj0
        name == extract_possible_name(p, obj, app)
    IN  IF intent = Chars("create") THEN _steps_create(obj, app, name)
        ELSE IF intent = Chars("filter")
        THEN _steps_filter(obj, app, extract_filter_value(p))
        ELSE IF intent = Chars("update") THEN _steps_update(obj, app, name)
        ELSE IF intent = Chars("delete") THEN _steps_delete(obj, app, name)
        ELSE IF intent = Chars("open") THEN _steps_open(obj, app)
        ELSE << [action |-> Chars("open"), app |-> app],
                [action |-> Chars("assert"), token |-> Chars("opened")] >>

(***************************************************************************)
(* planner.py: _normalize and the vocabulary matcher                       *)
(***************************************************************************)

\* The grave accent, which cannot stand in a string of this module.
GraveAccent == "U+0060"

\* string.punctuation
Punctuation ==
    {Chars("!\"#$%&'()*+,-./:;<=>?@[\\]^_{|}~")[n] : n \in 1..31}
        \cup {GraveAccent}

\* prompt.translate(str.maketrans("", "", string.punctuation))
RemovePunctuation(s) == SelectSeq(s, LAMBDA c : c \notin Punctuation)

\* re.sub(r"\s+", " ", s): every maximal run of whitespace becomes one " ".
CollapseWhitespace(s) ==
    LET kept == {n \in 1..Len(s) :
                    \/ s[n] \notin Whitespace
                    \/ n = 1
                    \/ s[n - 1] \notin Whitespace}
        Nth(j) == CHOOSE x \in kept : Cardinality({y \in kept : y < x}) = j - 1
    IN  [j \in 1..Cardinality(kept) |->
            IF s[Nth(j)] \in Whitespace THEN " " ELSE s[Nth(j)]]

\* _normalize without the final strip().
_normalize_unstripped(p) == CollapseWhitespace(RemovePunctuation(Lower(p)))

_normalize(p) == Strip(CollapseWhitespace(RemovePunctuation(Lower(p))))

\* The length of the longest common block of a and b that starts at a[i]
\* and b[j] and stays within a[..ahi] and b[..bhi].
BlockLen(a, b, i, j, ahi, bhi) ==
    LET room == IF ahi - i < bhi - j THEN ahi - i + 1 ELSE bhi - j + 1
    IN  CHOOSE sz \in 0..room :
            /\ \A x \in 0..(sz - 1) : a[i + x] = b[j + x]
            /\ sz = room \/ a[i + sz] # b[j + sz]

\* SequenceMatcher.find_longest_match(alo, ahi, blo, bhi) without junk: of
\* the longest blocks the one that starts earliest in a and, of those, the
\* one that starts earliest in b.  << i, j, size >>, indices from 1, both
\* ends included; << alo, blo, 0 >> when no character matches.
find_longest_match(a, b, alo, ahi, blo, bhi) ==
    LET blocks == {<< q[1], q[2], BlockLen(a, b, q[1], q[2], ahi, bhi) >> :
                      q \in (alo..ahi) \X (blo..bhi)}
        Before(m, u) ==
            \/ m[3] > u[3]
            \/ m[3] = u[3] /\ m[1] < u[1]
            \/ m[3] = u[3] /\ m[1] = u[1] /\ m[2] < u[2]
    IN  CHOOSE m \in blocks : \A u \in blocks \ {m} : Before(m, u)

\* The sum of the sizes of SequenceMatcher.get_matching_blocks(): the
\* longest block, then the blocks to its left and to its right.
RECURSIVE MatchingChars(_, _, _, _, _, _)
MatchingChars(a, b, alo, ahi, blo, bhi) ==
    IF alo > ahi \/ blo > bhi THEN 0
    ELSE CHOOSE total \in
             {IF m[3] = 0 THEN 0
              ELSE m[3]
                   + MatchingChars(a, b, alo, m[1] - 1, blo, m[2] - 1)
                   + MatchingChars(a, b, m[1] + m[3], ahi, m[2] + m[3], bhi) :
                 m \in {find_longest_match(a, b, alo, ahi, blo, bhi)}} : TRUE

\* SequenceMatcher.ratio() = 2.0 * matches / (len(a) + len(b)), kept as the
\* fraction << numerator, denominator >>.
ratio(a, b) ==
    << 2 * MatchingChars(a, b, 1, Len(a), 1, Len(b)), Len(a) + Len(b) >>

\* ratio >= cutoff for cutoff = 0.7
cutoff == << 7, 10 >>

AtLeast(r, c) == r[1] * c[2] >= c[1] * r[2]

\* x < y for two str of lower-case letters.
StrLess(x, y) ==
    LET Code(c) == CHOOSE n \in 1..26 : LowerChars[n] = c IN
    \E n \in 1..Len(y) :
        /\ \A m \in 1..(n - 1) : m <= Len(x) /\ x[m] = y[m]
        /\ n > Len(x) \/ Code(x[n]) < Code(y[n])

\* The possibilities at or above the cutoff, each with its ratio to word.
\* possibilities is seq1, word is seq2.
CloseTo(word, possibilities) ==
    {sc \in {<< x, ratio(x, word) >> : x \in possibilities} :
        AtLeast(sc[2], cutoff)}

\* heapq.nlargest(1, result) on (ratio, possibility) pairs: the greatest
\* ratio and, among equal ratios, the greatest possibility.
Largest(scored) ==
    CHOOSE sc \in scored :
        \A other \in scored \ {sc} :
            \/ other[2][1] * sc[2][2] < sc[2][1] * other[2][2]
            \/ /\ other[2][1] * sc[2][2] = sc[2][1] * other[2][2]
               /\ StrLess(other[1], sc[1])

\* get_close_matches(word, possibilities, n=1, cutoff=0.7): << >> when no
\* possibility is close.
get_close_matches(word, possibilities) ==
    CHOOSE match \in
        {IF close = {} THEN << >> ELSE << Largest(close)[1] >> :
            close \in {CloseTo(word, possibilities)}} : TRUE

\* config/app_names.yaml: the canonical app names.
app_names == << Chars("Linear"), Chars("Notion"), Chars("Asana") >>

\* config/intents.yaml, flattened: verb -> intent name.
intent_vocab ==
    [word \in {Chars("create"), Chars("add"), Chars("make"),
               Chars("filter"), Chars("show"), Chars("update"),
               Chars("rename"), Chars("delete"), Chars("remove"),
               Chars("open")} |->
        IF word \in {Chars("create"), Chars("add"), Chars("make")}
        THEN Chars("create")
        ELSE IF word \in {Chars("filter"), Chars("show")} THEN Chars("filter")
        ELSE IF word \in {Chars("update"), Chars("rename")}
        THEN Chars("update")
        ELSE IF word \in {Chars("delete"), Chars("remove")}
        THEN Chars("delete")
        ELSE Chars("open")]

\* config/intents.yaml, flattened: noun -> object class.
object_vocab ==
    [word \in {Chars("project"), Chars("issue"), Chars("ticket"),
               Chars("page"), Chars("view"), Chars("filter")} |->
        IF word \in {Chars("issue"), Chars("ticket")} THEN Chars("issue")
        ELSE IF word \in {Chars("view"), Chars("filter")} THEN Chars("view")
        ELSE word]

\* apps_lower = [a.lower() for a in apps]
apps_lower == [n \in 1..Len(app_names) |-> Lower(app_names[n])]

\* apps[apps_lower.index(match[0])]
CanonicalApp(word) ==
    app_names[CHOOSE n \in 1..Len(app_names) :
                  /\ apps_lower[n] = word
                  /\ \A m \in 1..(n - 1) : apps_lower[m] # word]

(***************************************************************************)
(* The plan file: yaml.safe_dump(steps, sort_keys=False) / yaml.safe_load  *)
(***************************************************************************)

\* The keys of a step dict, in the insertion order every template uses.
KeyOrder == << "action", "app", "section", "text", "field", "val", "opt",
               "token", "state_label" >>

\* dict.get(key), None when the key is absent.
Get(step, key) == IF key \in DOMAIN step THEN step[key] ELSE None

\* str.upper() on one character.
UpperChar(c) ==
    IF \E n \in 1..26 : LowerChars[n] = c
    THEN UpperChars[CHOOSE n \in 1..26 : LowerChars[n] = c]
    ELSE c

Upper(s) == [n \in 1..Len(s) |-> UpperChar(s[n])]

Capitalize(s) == IF s = <<>> THEN s ELSE << UpperChar(Head(s)) >> \o Tail(s)

\* Words the YAML 1.1 resolver reads as bool or null when written plain.
YamlWords == {Chars("yes"), Chars("no"), Chars("true"), Chars("false"),
              Chars("on"), Chars("off"), Chars("null")}

DigitChars == Chars("0123456789")

IsDigit(c) == \E n \in 1..10 : DigitChars[n] = c

\* A plain scalar with this text would not load as a str (bool, null, int).
ResolvesNonStr(s) ==
    \/ s = <<>>
    \/ s = Chars("~")
    \/ \E w \in YamlWords : s \in {w, Capitalize(w), Upper(w)}
    \/ \A n \in 1..Len(s) : IsDigit(s[n])

\* A representer that writes every str plain.
DumpScalar_plain(v) == [quoted |-> FALSE, text |-> v]

\* The representer quotes a str exactly when its plain form would resolve
\* to something else.
DumpScalar(v) == [quoted |-> ResolvesNonStr(v), text |-> v]

\* What a scalar that does not load as a str loads as.
NonStr == << "<NonStr>" >>

LoadScalar(sc) ==
    IF sc.quoted THEN sc.text
    ELSE IF ResolvesNonStr(sc.text) THEN NonStr
    ELSE sc.text

\* One mapping of the document: its entries in key order.
RECURSIVE DumpKeys(_, _)
DumpKeys(step, keys) ==
    IF keys = <<>> THEN <<>>
    ELSE (IF Head(keys) \in DOMAIN step
          THEN << [key |-> Head(keys), value |-> DumpScalar(step[Head(keys)])] >>
          ELSE <<>>)
         \o DumpKeys(step, Tail(keys))

DumpStep(step) == DumpKeys(step, KeyOrder)

LoadStep(entries) ==
    [key \in {entries[n].key : n \in 1..Len(entries)} |->
        LoadScalar(entries[CHOOSE n \in 1..Len(entries) :
                               entries[n].key = key].value)]

\* yaml.safe_dump(steps, f, sort_keys=False)
YamlDump(plan) == [n \in 1..Len(plan) |-> DumpStep(plan[n])]

\* yaml.safe_load(text)
YamlLoad(doc) == [n \in 1..Len(doc) |-> LoadStep(doc[n])]

(***************************************************************************)
(* executor.py: tables                                                     *)
(***************************************************************************)

APP_STATE_FILES(app) ==
    IF app = Chars("Linear") THEN Chars("linear_state.json")
    ELSE IF app = Chars("Notion") THEN Chars("notion_state.json")
    ELSE IF app = Chars("Asana") THEN Chars("asana_state.json")
    ELSE None

APP_BASE_URLS(app) ==
    IF app = Chars("Linear") THEN Chars("https://linear.app/")
    ELSE IF app = Chars("Notion") THEN Chars("https://www.notion.so/")
    ELSE IF app = Chars("Asana") THEN Chars("https://app.asana.com/")
    ELSE None

\* The fallbacks dict of do_click, in insertion order.
fallbacks ==
    << [key |-> Chars("new project"),
        candidates |-> << Chars("Blank project"), Chars("Create project"),
                          Chars("Add project"), Chars("New project"),
                          Chars("Create") >>],
       [key |-> Chars("create project"),
        candidates |-> << Chars("Blank project"), Chars("New project"),
                          Chars("Project") >>] >>

\* The labels of do_submit with "Create" ahead of "Create project".
common_labels_create_first ==
    << Chars("Create"), Chars("Create project"), Chars("Save"),
       Chars("Submit"), Chars("Done"), Chars("OK"), Chars("Continue"),
       Chars("Add") >>

\* common_labels of do_submit.
common_labels ==
    << Chars("Create project"), Chars("Create"), Chars("Save"),
       Chars("Submit"), Chars("Done"), Chars("OK"), Chars("Continue"),
       Chars("Add") >>

(***************************************************************************)
(* executor.py: the resolution cascades                                    *)
(*                                                                         *)
(* An attempt is one try-block of a handler.  kind "counted" is            *)
(* `if locator.count() > 0: locator.first.<act>(); return`, kind "direct"  *)
(* is `locator.first.click(); return` without a count, kind "click_type"   *)
(* is the click-then-keyboard.type block of do_fill.                       *)
(***************************************************************************)

Attempt(strategy, target, kind, act) ==
    [strategy |-> strategy, target |-> target, kind |-> kind, act |-> act]

goto_cascade(section) ==
    << Attempt("text", section, "direct", "click"),
       Attempt("role_link", section, "counted", "click"),
       Attempt("role_button", section, "counted", "click") >>

RECURSIVE SynonymAttempts(_, _)
SynonymAttempts(text, table) ==
    IF table = <<>> THEN <<>>
    ELSE (IF Contains(text, Head(table).key)
          THEN [n \in 1..Len(Head(table).candidates) |->
                   Attempt("role_button", Head(table).candidates[n],
                           "counted", "click")]
          ELSE <<>>)
         \o SynonymAttempts(text, Tail(table))

\* do_click with the page-wide text search tried before the synonym labels.
click_cascade_text_first(raw_text) ==
    LET text == Strip(Lower(raw_text)) IN
    << Attempt("role_button", text, "counted", "click"),
       Attempt("text", raw_text, "direct", "click") >>
    \o SynonymAttempts(text, fallbacks)

click_cascade(raw_text) ==
    LET text == Strip(Lower(raw_text)) IN
    << Attempt("role_button", text, "counted", "click") >>
    \o SynonymAttempts(text, fallbacks)
    \o << Attempt("text", raw_text, "direct", "click") >>

\* do_fill with the placeholder match tried before the label match.
fill_cascade_placeholder_first(field) ==
    << Attempt("placeholder", field, "counted", "fill"),
       Attempt("label", field, "counted", "fill"),
       Attempt("attr", field, "counted", "fill"),
       Attempt("role_textbox", <<>>, "counted", "fill"),
       Attempt("input_textarea", <<>>, "counted", "fill"),
       Attempt("text", field, "click_type", "type") >>

fill_cascade(field) ==
    << Attempt("label", field, "counted", "fill"),
       Attempt("placeholder", field, "counted", "fill"),
       Attempt("attr", field, "counted", "fill"),
       Attempt("role_textbox", <<>>, "counted", "fill"),
       Attempt("input_textarea", <<>>, "counted", "fill"),
       Attempt("text", field, "click_type", "type") >>

submit_cascade ==
    [n \in 1..Len(common_labels) |->
        Attempt("role_button", common_labels[n], "counted", "click")]

\* What an attempt asks of the page: the role locators take
\* re.compile(target, re.I), which matches without regard to case; the
\* other locators take the target as it is.
Method(a) ==
    << a.strategy,
       IF a.strategy \in {"role_button", "role_link"}
       THEN Lower(a.target) ELSE a.target >>

\* The handlers that are a cascade, and the step field each one requires.
CascadeActions == {Chars("goto"), Chars("click"), Chars("fill"),
                   Chars("submit")}

RequiredField(action) ==
    IF action = Chars("goto") THEN "section"
    ELSE IF action = Chars("click") THEN "text"
    ELSE IF action = Chars("fill") THEN "field"
    ELSE "action"

Cascade(step) ==
    LET action == Get(step, "action") IN
    IF action = Chars("goto") THEN goto_cascade(step.section)
    ELSE IF action = Chars("click") THEN click_cascade(step.text)
    ELSE IF action = Chars("fill") THEN fill_cascade(step.field)
    ELSE submit_cascade

\* What the automation surface can answer to an attempt of each kind: "hit"
\* is the path that returns, "miss" a count of 0, "blocked" a positive count
\* followed by an action that raises, "error" a locator that raises,
\* "typed_error" a click followed by a keyboard.type that raises.
AttemptOutcomes(kind) ==
    IF kind = "counted" THEN {"hit", "miss", "blocked", "error"}
    ELSE IF kind = "direct" THEN {"hit", "error"}
    ELSE {"hit", "error", "typed_error"}

\* The tags perform_step has a branch for.
RecognisedActions == {Chars("open"), Chars("goto"), Chars("click"),
                      Chars("fill"), Chars("select"), Chars("submit"),
                      Chars("assert")}

\* The tags whose handler is a function the module defines: do_open,
\* do_goto, do_click, do_fill, do_submit, do_assert.  do_select exists only
\* as a comment.
DefinedHandlers == {Chars("open"), Chars("goto"), Chars("click"),
                    Chars("fill"), Chars("submit"), Chars("assert")}

(***************************************************************************)
(* executor.py: capture_state                                              *)
(***************************************************************************)

\* f"{idx:02d}" for idx below 100.
TwoDigit(n) == << DigitChars[(n \div 10) + 1], DigitChars[(n % 10) + 1] >>

\* A screenshot name without the zero padding of the index.
screenshot_name_unpadded(step, idx) ==
    (IF idx < 10 THEN << DigitChars[idx + 1] >> ELSE TwoDigit(idx))
    \o Chars("_")
    \o (IF "action" \in DOMAIN step THEN step.action ELSE Chars("unknown"))
    \o Chars(".png")

\* f"{idx:02d}_{step.get('action', 'unknown')}.png"
screenshot_name(step, idx) ==
    TwoDigit(idx) \o Chars("_")
    \o (IF "action" \in DOMAIN step THEN step.action ELSE Chars("unknown"))
    \o Chars(".png")

\* hashlib.sha256(body_html).hexdigest(): the page body is identified by the
\* number of UI mutations it has received, the digest by that number.
Sha256(dom) == Chars("sha256:") \o TwoDigit(dom)

StepResult(step, idx, url, dom_hash) ==
    [index |-> idx,
     action |-> Get(step, "action"),
     state_label |-> Get(step, "state_label"),
     step |-> step,
     url |-> url,
     screenshot |-> screenshot_name(step, idx),
     dom_hash |-> dom_hash]

(***************************************************************************)
(* Inputs                                                                  *)
(***************************************************************************)

\* Bounds of the length of a prompt (the defaults of the environment).
MIN_PROMPT_LEN == 4

MAX_PROMPT_LEN == 500

\* A word of n letters.
LongWord(n) == [j \in 1..n |-> "z"]

\* Lines typed at the command loop.  The last one is longer than
\* MAX_PROMPT_LEN: its first MAX_PROMPT_LEN characters end with " by ".
RawInputs ==
    {Chars("Create a project named Apollo in Linear"),
     Chars("create project called Test Rocket"),
     Chars("filter issues by priority high"),
     Chars("New issue  Login bug\ton Linear"),
     Chars("  create project called 007 "),
     Chars("Create a page with title"),
     Chars("Filter issues with label bug by Priority High"),
     Chars("filter issues with label bug ")
        \o LongWord(MAX_PROMPT_LEN - 33) \o Chars(" by priority high"),
     Chars("Exit"),
     Chars(" go ")}

\* CLI.read_prompt(): None ends the loop, "" asks again.
read_prompt(line) ==
    LET raw == Strip(line) IN
    IF Lower(raw) \in {Chars("exit"), Chars("quit")} THEN None
    ELSE IF raw = <<>> \/ Len(raw) < MIN_PROMPT_LEN THEN <<>>
    ELSE IF Len(raw) > MAX_PROMPT_LEN THEN SubSeq(raw, 1, MAX_PROMPT_LEN)
    ELSE raw

\* The prompts the command loop hands to plan().
Prompts == {read_prompt(line) : line \in RawInputs} \ {None, <<>>}

\* What the matcher can resolve from the configured vocabulary.
Intents == {Chars("create"), Chars("filter"), Chars("update"),
            Chars("delete"), Chars("open")}

Objects == {Chars("project"), Chars("issue"), Chars("page")}

Apps == {Chars("Linear"), Chars("Notion"), Chars("Asana")}

\* Plan files that do not come from the compiler: an unrecognised tag, a
\* select step, steps with missing fields, a step without a tag, an open
\* step without an app before one with an app, no steps.
ForeignPlans ==
    {<< [action |-> Chars("hover"), text |-> Chars("Menu")],
        [action |-> Chars("select"), field |-> Chars("Status"),
         opt |-> Chars("Done")],
        [action |-> Chars("open"), app |-> Chars("Notion")] >>,
     << [text |-> Chars("orphan")],
        [action |-> Chars("click")],
        [action |-> Chars("assert")] >>,
     << [action |-> Chars("open")],
        [action |-> Chars("open"), app |-> Chars("Linear")] >>,
     << >>}

\* Plan files written by hand with plain scalars: the token of the assert
\* step is the number 2024.
ForeignFiles ==
    {<< << [key |-> "action",
            value |-> [quoted |-> FALSE, text |-> Chars("assert")]],
           [key |-> "token",
            value |-> [quoted |-> FALSE, text |-> Chars("2024")]] >> >>}

\* The inputs of the runs that are executed end to end.
RunPrompts ==
    {Chars("Create a project named Apollo in Linear"),
     Chars("filter issues by priority high")}

RunIntents == {Chars("create"), Chars("filter")}

RunObjects == {Chars("project")}

RunApps == {Chars("Linear")}

\* Session snapshot files that may be present in the working directory.
Disks == {{}, {Chars("linear_state.json"), Chars("notion_state.json")}}

\* Texts page.text_content("body") may return (<<>> also stands for None).
BodyTexts == {<<>>, Chars("My PROJECTS Apollo created"), Chars("Untitled")}

\* Bound on the url / body reads that fail during one run.
MaxFaults == 1

(***************************************************************************)
(* State                                                                   *)
(***************************************************************************)

VARIABLES
    locals,      \* plan(): the prompt and what the matcher resolved
    scan,        \* plan(): the normalized prompt and the matcher's loop
    stepsFile,   \* run_dir/steps.yaml
    disk,        \* the snapshot files present in the working directory
    pc,          \* control position of the run
    steps,       \* execute_plan: the loaded plan
    states,      \* execute_plan: the list of StepResult
    i,           \* execute_plan: the 1-based loop index
    session,     \* the browser context
    page,        \* the page: its url and the version of its body
    k,           \* position in the cascade of the running handler
    muts,        \* UI mutations performed by the running handler
    blocked,     \* the running handler found an element it could not act on
    result,      \* how the handler of the current step ended
    faults,      \* number of failed url / body reads so far
    shots,       \* screenshot files written to run_dir/states
    statesFile,  \* run_dir/states.json
    error        \* the exception that left execute_plan, "none" so far

vars == << locals, scan, stepsFile, disk, pc, steps, states, i, session, page, k,
           muts, blocked, result, faults, shots, statesFile, error >>

planVars == << locals, scan, stepsFile, disk >>

runVars == << steps, states, i, session, page, k, muts, blocked, result,
              faults,
             shots, statesFile, error >>

\* plan() is not running.
NoLocals == [prompt |-> None, intent |-> None, obj |-> None, app |-> None]

\* The browser context: not created, open with its storage_state (None for
\* an empty context), or closed by browser.close() / the with-block.
NoSession == [state |-> "none", storage_state |-> None]

OpenSession(storage_state) == [state |-> "open", storage_state |-> storage_state]

Closed(s) == [s EXCEPT !.state = "closed"]

\* The matcher is not running.
NoScan == [phase |-> "idle", norm |-> None, tokens |-> << >>, t |-> 0]

Init ==
    /\ locals = NoLocals
    /\ scan = NoScan
    /\ stepsFile = NoFile
    /\ disk \in Disks
    /\ pc = "idle"
    /\ steps = <<>>
    /\ states = <<>>
    /\ i = 0
    /\ session = NoSession
    /\ page = [url |-> None, dom |-> 0]
    /\ k = 0
    /\ muts = <<>>
    /\ blocked = FALSE
    /\ result = "none"
    /\ faults = 0
    /\ shots = {}
    /\ statesFile = NoFile
    /\ error = "none"

(***************************************************************************)
(* planner.py: plan()                                                      *)
(***************************************************************************)

\* plan() up to the "Parsed:" log line.  The vocabulary tables are external
\* configuration, so what the matcher resolves is an input here.
ResolveFrom(prompts, intents, objects, apps) ==
    /\ pc = "idle"
    /\ stepsFile = NoFile
    /\ \E p \in prompts, intent \in intents \cup {None},
          obj \in objects \cup {None}, app \in apps \cup {None} :
          locals' = [prompt |-> p, intent |-> intent, obj |-> obj, app |-> app]
    /\ pc' = "compile"
    /\ UNCHANGED << scan, stepsFile, disk >>
    /\ UNCHANGED runVars

Resolve == ResolveFrom(RunPrompts, RunIntents, RunObjects, RunApps)

ResolveAny == ResolveFrom(Prompts, Intents, Objects, Apps)

\* steps = _build_steps(intent, obj, app, prompt)
\* _write_steps_yaml(steps, run_dir)
PlanWrite ==
    /\ pc = "compile"
    /\ stepsFile' = File(YamlDump(_build_steps(locals.intent, locals.obj,
                                               locals.app, locals.prompt)))
    /\ pc' = "planned"
    /\ UNCHANGED << locals, scan, disk >>
    /\ UNCHANGED runVars

\* A steps.yaml placed in the run folder by hand.
AuthorPlan ==
    /\ pc = "idle"
    /\ stepsFile = NoFile
    /\ \/ \E plan \in ForeignPlans : stepsFile' = File(YamlDump(plan))
       \/ \E doc \in ForeignFiles : stepsFile' = File(doc)
    /\ pc' = "planned"
    /\ UNCHANGED << locals, scan, disk >>
    /\ UNCHANGED runVars

(***************************************************************************)
(* executor.py: execute_plan                                               *)
(***************************************************************************)

\* load_steps for an existing steps.yaml: yaml.safe_load(read_text())
load_steps(file) == YamlLoad(file.content)

\* steps = load_steps(run_dir); states = []
\* plan() has returned by now: its locals are gone.
LoadSteps ==
    /\ pc \in {"idle", "planned"}
    /\ IF ~stepsFile.exists
       THEN /\ pc' = "aborted"
            /\ error' = "FileNotFoundError"
            /\ UNCHANGED << steps, states >>
       ELSE /\ steps' = load_steps(stepsFile)
            /\ states' = <<>>
            /\ pc' = "launch"
            /\ UNCHANGED error
    /\ locals' = NoLocals
    /\ scan' = NoScan
    /\ UNCHANGED << stepsFile, disk >>
    /\ UNCHANGED << i, session, page, k, muts, blocked, result, faults, shots,
                    statesFile >>

\* The app of the first open step that has one.
FirstOpenApp(plan) ==
    LET opens == {n \in 1..Len(plan) :
                     /\ Get(plan[n], "action") = Chars("open")
                     /\ Truthy(Get(plan[n], "app"))}
    IN  IF opens = {} THEN None
        ELSE plan[CHOOSE n \in opens : \A m \in opens : n <= m].app

\* StorageState without the test that the snapshot file exists.
StorageState_unchecked(plan, files) ==
    LET state_file == APP_STATE_FILES(FirstOpenApp(plan)) IN
    IF Truthy(state_file) THEN state_file ELSE None

\* The storage_state the context is created with, None for an empty context.
StorageState(plan, files) ==
    LET state_file == APP_STATE_FILES(FirstOpenApp(plan)) IN
    IF Truthy(state_file) /\ state_file \in files THEN state_file ELSE None

\* browser = launch(); context = new_context(...); page = context.new_page()
StartSession ==
    /\ pc = "launch"
    /\ session' = OpenSession(StorageState(steps, disk))
    /\ page' = [url |-> Chars("about:blank"), dom |-> 0]
    /\ i' = 1
    /\ pc' = IF steps = <<>> THEN "close" ELSE "step"
    /\ UNCHANGED planVars
    /\ UNCHANGED << steps, states, k, muts, blocked, result, faults, shots,
                    statesFile, error >>

\* HandlerEnds without the try/except around perform_step: the exception of
\* a handler leaves execute_plan.
HandlerEnds_uncaught(res, newPage) ==
    /\ result' = res
    /\ page' = newPage
    /\ IF res = "raised"
       THEN /\ pc' = "aborted"
            /\ error' = "HandlerError"
            /\ session' = Closed(session)
       ELSE /\ pc' = "capture"
            /\ UNCHANGED << session, error >>
    /\ UNCHANGED planVars
    /\ UNCHANGED << steps, states, i, k, muts, blocked, faults, shots,
                    statesFile >>

\* A handler returns, or raises into the except clause of execute_plan,
\* without having entered a cascade; capture_state comes next either way.
HandlerEnds(res, newPage) ==
    /\ result' = res
    /\ page' = newPage
    /\ pc' = "capture"
    /\ UNCHANGED planVars
    /\ UNCHANGED << steps, states, i, session, k, muts, blocked, faults, shots,
                    statesFile, error >>

CurrentAction == Get(steps[i], "action")

\* do_open indexing APP_BASE_URLS[app]: KeyError for an app without a URL.
do_open_strict(app, pg) ==
    LET base_url == APP_BASE_URLS(app) IN
    IF ~Truthy(base_url)
    THEN {[result |-> "raised", page |-> pg]}
    ELSE {[result |-> "ok", page |-> [url |-> base_url, dom |-> pg.dom + 1]],
          [result |-> "raised", page |-> pg],
          [result |-> "raised",
           page |-> [url |-> base_url, dom |-> pg.dom + 1]]}

\* do_open: how it can end and the page it leaves.  An exception of
\* page.goto leaves the page where it was; one of wait_for_load_state comes
\* after the navigation.
do_open(app, pg) ==
    LET base_url == APP_BASE_URLS(app) IN
    IF ~Truthy(base_url)
    THEN {[result |-> "ok", page |-> [url |-> Chars("about:blank"), dom |-> 0]]}
    ELSE {[result |-> "ok", page |-> [url |-> base_url, dom |-> pg.dom + 1]],
          [result |-> "raised", page |-> pg],
          [result |-> "raised",
           page |-> [url |-> base_url, dom |-> pg.dom + 1]]}

\* perform_step -> do_open
DoOpen ==
    /\ pc = "step"
    /\ CurrentAction = Chars("open")
    /\ \E end \in do_open(Get(steps[i], "app"), page) :
          HandlerEnds(end.result, end.page)

\* do_assert once the body text has been read.
do_assert(token, body_text) ==
    IF Contains(Lower(body_text), Lower(token)) THEN "passed" ELSE "not_found"

\* perform_step -> do_assert
\* A token that is not a str is either falsy (null, false, 0), which is a
\* missing token, or truthy (true, 2024), which has no lower(): the
\* AttributeError leaves do_assert.
DoAssert ==
    /\ pc = "step"
    /\ CurrentAction = Chars("assert")
    /\ LET token == Get(steps[i], "token") IN
       IF token = NonStr
       THEN \/ HandlerEnds("missing_field", page)
            \/ HandlerEnds("raised", page)
       ELSE IF ~Truthy(token)
       THEN HandlerEnds("missing_field", page)
       ELSE \/ HandlerEnds("unreadable", page)
            \/ \E body_text \in BodyTexts :
                  HandlerEnds(do_assert(token, body_text), page)

\* perform_step -> do_select, a name the module does not define: NameError,
\* caught in execute_plan.
DoSelect ==
    /\ pc = "step"
    /\ CurrentAction = Chars("select")
    /\ HandlerEnds("raised", page)

\* perform_step falling through to do_click for a tag it does not know.
UnknownAction_clicks ==
    /\ pc = "step"
    /\ CurrentAction \notin RecognisedActions
    /\ HandlerEnds("ok", [page EXCEPT !.dom = @ + 1])

\* perform_step, else branch: logger.warning("Unknown action")
UnknownAction ==
    /\ pc = "step"
    /\ CurrentAction \notin RecognisedActions
    /\ HandlerEnds("unknown_action", page)

\* perform_step -> do_goto / do_click / do_fill / do_submit, up to the first
\* try-block.
EnterCascade ==
    /\ pc = "step"
    /\ CurrentAction \in CascadeActions
    /\ IF ~Truthy(Get(steps[i], RequiredField(CurrentAction)))
       THEN /\ HandlerEnds("missing_field", page)
       ELSE /\ k' = 1
            /\ pc' = "cascade"
            /\ UNCHANGED planVars
            /\ UNCHANGED << steps, states, i, session, page, muts, blocked,
                            result,
                            faults, shots, statesFile, error >>

Mutation(a, act) == [act |-> act, strategy |-> a.strategy, target |-> a.target]

\* One try-block of the running handler.
TryAttempt ==
    /\ pc = "cascade"
    /\ LET a == Cascade(steps[i])[k]
           last == k = Len(Cascade(steps[i]))
       IN  \E outcome \in AttemptOutcomes(a.kind) :
            CASE outcome = "hit" ->
                    /\ muts' = IF a.kind = "click_type"
                               THEN muts \o << Mutation(a, "click"),
                                               Mutation(a, "type") >>
                               ELSE Append(muts, Mutation(a, a.act))
                    /\ page' = [page EXCEPT !.dom = @ + Len(muts') - Len(muts)]
                    /\ UNCHANGED blocked
                    /\ result' = "ok"
                    /\ pc' = "capture"
                    /\ UNCHANGED k
              [] outcome = "typed_error" ->
                    /\ muts' = Append(muts, Mutation(a, "click"))
                    /\ page' = [page EXCEPT !.dom = @ + 1]
                    /\ UNCHANGED blocked
                    /\ result' = "not_found"
                    /\ pc' = "capture"
                    /\ UNCHANGED k
              [] OTHER ->
                    /\ UNCHANGED << muts, page >>
                    /\ blocked' = (blocked \/ outcome = "blocked")
                    /\ IF last
                       THEN /\ result' = "not_found"
                            /\ pc' = "capture"
                            /\ UNCHANGED k
                       ELSE /\ k' = k + 1
                            /\ UNCHANGED << result, pc >>
    /\ UNCHANGED planVars
    /\ UNCHANGED << steps, states, i, session, faults, shots, statesFile,
                    error >>

\* The append skipped for a step whose handler did not succeed.
states_append_on_success(log, state) ==
    IF result \in {"ok", "passed"} THEN Append(log, state) ELSE log

\* states.append(state)
states_append(log, state) == Append(log, state)

\* state = capture_state(page, step, i, states_dir); states.append(state)
\* The screenshot is taken outside any try-block: its exception leaves
\* capture_state and execute_plan, and the with-block closes the browser.
CaptureState ==
    /\ pc = "capture"
    /\ \/ /\ pc' = "aborted"
          /\ error' = "ScreenshotError"
          /\ session' = Closed(session)
          /\ UNCHANGED << states, i, k, muts, blocked, result, faults, shots >>
       \/ \E urlRead \in BOOLEAN, bodyRead \in BOOLEAN :
             LET newFaults == faults + (IF urlRead THEN 0 ELSE 1)
                                     + (IF bodyRead THEN 0 ELSE 1)
                 url == IF urlRead THEN page.url ELSE None
                 dom_hash == IF bodyRead THEN Sha256(page.dom) ELSE None
             IN  /\ newFaults <= MaxFaults
                 /\ faults' = newFaults
                 /\ shots' = shots \cup {screenshot_name(steps[i], i)}
                 /\ states' = states_append(states,
                                  StepResult(steps[i], i, url, dom_hash))
                 /\ i' = i + 1
                 /\ k' = 0
                 /\ muts' = <<>>
                 /\ blocked' = FALSE
                 /\ result' = "none"
                 /\ pc' = IF i = Len(steps) THEN "close" ELSE "step"
                 /\ UNCHANGED << session, error >>
    /\ UNCHANGED planVars
    /\ UNCHANGED << steps, page, statesFile >>

\* browser.close(); states.json is written
Finish ==
    /\ pc = "close"
    /\ session' = Closed(session)
    /\ statesFile' = File(states)
    /\ pc' = "done"
    /\ UNCHANGED planVars
    /\ UNCHANGED << steps, states, i, page, k, muts, blocked, result, faults,
                    shots,
                    error >>

Next ==
    \/ Resolve
    \/ PlanWrite
    \/ AuthorPlan
    \/ LoadSteps
    \/ StartSession
    \/ DoOpen
    \/ DoAssert
    \/ DoSelect
    \/ UnknownAction
    \/ EnterCascade
    \/ TryAttempt
    \/ CaptureState
    \/ Finish

Spec == Init /\ [][Next]_vars

\* The plan compiler alone, over every input.
PlanNext ==
    \/ ResolveAny
    \/ PlanWrite

PlanSpec == Init /\ [][PlanNext]_vars

(***************************************************************************)
(* planner.py: plan() with its matcher                                     *)
(***************************************************************************)

\* Characters outside ASCII that a pasted prompt may hold: the curly double
\* quotes and the horizontal ellipsis.
LeftQuote == "U+201C"

RightQuote == "U+201D"

Ellipsis == "U+2026"

\* Lines typed at the command loop, for the runs of the matcher.
MatchInputs ==
    {Chars("Create a project named Apollo in Linear"),
     Chars("open liner, then Notion!"),
     Chars("Add a filter to Projects"),
     Chars("Filter issues by priority high"),
     Chars("New issue  Login bug\ton Linear"),
     Chars("Open Notion !"),
     Chars("xyz123 ???"),
     Chars("delete the old pages, show tickets"),
     << LeftQuote >> \o Chars("Rename") \o << RightQuote >>
        \o Chars(" the ticket") \o << Ellipsis >> \o Chars(" Login-bug")}

MatchPrompts == {read_prompt(line) : line \in MatchInputs} \ {None, <<>>}

\* tokens = re.findall(r"[a-zA-Z]+", prompt.lower())
Tokens(norm) == AlphaRuns(Lower(norm))

\* norm = _normalize(prompt); _detect_app(norm, app_names) is entered.
Normalize ==
    /\ pc = "idle"
    /\ stepsFile = NoFile
    /\ scan = NoScan
    /\ \E p \in MatchPrompts :
          /\ locals' = [NoLocals EXCEPT !.prompt = p]
          /\ scan' = [phase |-> "app", norm |-> _normalize(p),
                      tokens |-> Tokens(_normalize(p)), t |-> 1]
    /\ pc' = "match"
    /\ UNCHANGED << stepsFile, disk >>
    /\ UNCHANGED runVars

\* One pass of the loop of _detect_app: the first token with a close match
\* returns its canonical app; the end of the tokens returns None.  Then
\* _detect_intent_object(norm, intents_cfg) is entered.
DetectApp ==
    /\ pc = "match"
    /\ scan.phase = "app"
    /\ IF scan.t > Len(scan.tokens)
       THEN /\ scan' = [scan EXCEPT !.phase = "intent_object",
                                    !.tokens = Tokens(scan.norm), !.t = 1]
            /\ UNCHANGED locals
       ELSE LET match == get_close_matches(scan.tokens[scan.t],
                                           {apps_lower[n] :
                                               n \in 1..Len(apps_lower)})
            IN  IF match # << >>
                THEN /\ locals' = [locals EXCEPT
                                      !.app = CanonicalApp(match[1])]
                     /\ scan' = [scan EXCEPT !.phase = "intent_object",
                                             !.tokens = Tokens(scan.norm),
                                             !.t = 1]
                ELSE /\ scan' = [scan EXCEPT !.t = scan.t + 1]
                     /\ UNCHANGED locals
    /\ UNCHANGED << pc, stepsFile, disk >>
    /\ UNCHANGED runVars

\* A loop body that looks every token up, resolved or not.
ScanToken_overrides(resolved, token, vocab) ==
    LET match == get_close_matches(token, DOMAIN vocab) IN
    IF match # << >> THEN vocab[match[1]] ELSE resolved

\* if intent is None: match = get_close_matches(token, intent_words, ...)
\*     if match: intent = intent_vocab[match[0]]
\* and the same for obj with object_words and object_vocab.
ScanToken(resolved, token, vocab) ==
    IF resolved = None
    THEN LET match == get_close_matches(token, DOMAIN vocab) IN
         IF match # << >> THEN vocab[match[1]] ELSE None
    ELSE resolved

\* One pass of the loop of _detect_intent_object; after the last token the
\* matcher returns and plan() logs "Parsed:".
DetectIntentObject ==
    /\ pc = "match"
    /\ scan.phase = "intent_object"
    /\ IF scan.t > Len(scan.tokens)
       THEN /\ scan' = [scan EXCEPT !.phase = "parsed"]
            /\ pc' = "compile"
            /\ UNCHANGED locals
       ELSE /\ locals' = [locals EXCEPT
                 !.intent = ScanToken(locals.intent, scan.tokens[scan.t],
                                      intent_vocab),
                 !.obj = ScanToken(locals.obj, scan.tokens[scan.t],
                                   object_vocab)]
            /\ scan' = [scan EXCEPT !.t = scan.t + 1]
            /\ UNCHANGED pc
    /\ UNCHANGED << stepsFile, disk >>
    /\ UNCHANGED runVars

MatchNext ==
    \/ Normalize
    \/ DetectApp
    \/ DetectIntentObject
    \/ PlanWrite

MatchSpec == Init /\ [][MatchNext]_vars

(***************************************************************************)
(* Properties                                                              *)
(***************************************************************************)

\* The plan _build_steps returns for the inputs plan() holds.
Built == _build_steps(locals.intent, locals.obj, locals.app, locals.prompt)

\* plan() holds resolved inputs (it is compiling or has just returned).
Planning == pc \in {"compile", "planned"} /\ locals.prompt # None

\* The tag and the payload of a step, without its state label.
Sig(step) ==
    LET action == Get(step, "action") IN
    IF action = Chars("open") THEN << action, Get(step, "app") >>
    ELSE IF action = Chars("goto") THEN << action, Get(step, "section") >>
    ELSE IF action = Chars("click") THEN << action, Get(step, "text") >>
    ELSE IF action = Chars("fill")
    THEN << action, Get(step, "field"), Get(step, "val") >>
    ELSE IF action = Chars("assert") THEN << action, Get(step, "token") >>
    ELSE << action >>

Sigs(plan) == [n \in 1..Len(plan) |-> Sig(plan[n])]

\* The loop of execute_plan is running.
InLoop == pc \in {"step", "cascade", "capture"}

\* C1: every run that loaded a plan of N steps keeps one StepResult per
\* processed step whatever the handlers did, and the state log it writes has
\* exactly N entries.
C1_StateLogLength ==
    /\ InLoop => Len(states) = i - 1 /\ i <= Len(steps)
    /\ pc \in {"close", "done"} => Len(states) = Len(steps)
    /\ statesFile.exists => Len(statesFile.content) = Len(steps)
    /\ pc = "done" => statesFile.exists

\* A finished run of a six-step plan in which no handler had any effect on
\* the page (open raised before navigating, nothing was found).
C1_Witness ==
    /\ pc = "done"
    /\ Len(steps) = 6
    /\ page = [url |-> Chars("about:blank"), dom |-> 0]
    /\ Len(statesFile.content) = 6

\* C2: a failure raised inside a step handler is caught in execute_plan: it
\* is never the exception that ends the run, the state of the failing step
\* is captured next, every processed step (failing or not) has its
\* StepResult in order, and the steps after it are still processed.
C2_HandlerFailureCaught ==
    /\ error \in {"none", "FileNotFoundError", "ScreenshotError"}
    /\ result = "raised" /\ error = "none" => pc = "capture"
    /\ \A n \in 1..Len(states) :
          n <= Len(steps) /\ states[n].index = n /\ states[n].step = steps[n]
    /\ pc = "done" => Len(states) = Len(steps)

\* The select step (its handler always raises) has been recorded and the
\* handler of the step after it has run.
C2_Witness ==
    /\ pc = "capture"
    /\ i = 3
    /\ Len(states) = 2
    /\ states[2].action = Chars("select")
    /\ error = "none"

\* C3 as stated: no failure while capturing a step's state ends the run; the
\* field degrades to null, the StepResult is appended, the run goes on.
C3_CaptureNeverAborts ==
    /\ error # "ScreenshotError"
    /\ \A n \in 1..Len(states) :
          /\ states[n].url \in {None, Chars("about:blank")}
                               \cup {APP_BASE_URLS(a) : a \in Apps}
          /\ states[n].dom_hash = None
             \/ \E d \in 0..99 : states[n].dom_hash = Sha256(d)

\* C4 as stated: a missing plan file ends the run before any session, handler
\* or state log, and nothing else ends a run.
C4_OnlyPlanLoadIsFatal ==
    /\ error = "FileNotFoundError" =>
          /\ ~stepsFile.exists
          /\ session = NoSession
          /\ states = << >>
          /\ result = "none"
          /\ ~statesFile.exists
    /\ pc = "aborted" => error = "FileNotFoundError"

ApolloRequest ==
    [prompt |-> Chars("Create a project named Apollo in Linear"),
     intent |-> Chars("create"),
     obj |-> Chars("project"),
     app |-> Chars("Linear")]

ApolloPlan ==
    << << Chars("open"), Chars("Linear") >>,
       << Chars("goto"), Chars("Projects") >>,
       << Chars("click"), Chars("New project") >>,
       << Chars("fill"), Chars("Name"), Chars("apollo") >>,
       << Chars("submit") >>,
       << Chars("assert"), Chars("Project") >> >>

\* C6: for "Create a project named Apollo in Linear" resolved as (Linear,
\* create, project) the extracted name is "apollo", the compiled plan is the
\* six steps open(Linear), goto(Projects), click("New project"),
\* fill(Name, "apollo"), submit, assert("Project"), and a run of that plan
\* writes a state log of six entries.
C6_ApolloEndToEnd ==
    /\ Planning /\ locals = ApolloRequest =>
          /\ extract_possible_name(locals.prompt, locals.obj, locals.app)
                = Chars("apollo")
          /\ Sigs(Built) = ApolloPlan
          /\ pc = "planned" => Sigs(load_steps(stepsFile)) = ApolloPlan
    /\ pc = "done" /\ Sigs(steps) = ApolloPlan =>
          statesFile.exists /\ Len(statesFile.content) = 6

C6_Witness ==
    /\ pc = "done"
    /\ Sigs(steps) = ApolloPlan
    /\ Len(statesFile.content) = 6
    /\ statesFile.content[4].step.val = Chars("apollo")

\* C7: with no app resolved the compiler still returns a plan whose open step
\* carries the sentinel, the sentinel reaches the interpreter unchanged, the
\* open handler shows the blank page without raising, and the finished run
\* has a state log as long as the plan.
C7_UnknownAppDegrades ==
    /\ Planning /\ locals.app = None =>
          /\ Built # << >>
          /\ Sig(Built[1]) = << Chars("open"), UnknownApp >>
          /\ pc = "planned" =>
                Sig(load_steps(stepsFile)[1]) = << Chars("open"), UnknownApp >>
    /\ pc = "capture" /\ Sig(steps[i]) = << Chars("open"), UnknownApp >> =>
          /\ result = "ok"
          /\ page = [url |-> Chars("about:blank"), dom |-> 0]
    /\ pc = "done" /\ FirstOpenApp(steps) = UnknownApp =>
          statesFile.exists /\ Len(statesFile.content) = Len(steps)

C7_Witness ==
    /\ pc = "done"
    /\ Len(steps) = 6
    /\ Sig(steps[1]) = << Chars("open"), UnknownApp >>
    /\ Len(statesFile.content) = 6
    /\ statesFile.content[1].url = Chars("about:blank")

\* C8: with the intent unresolved, _build_steps returns exactly two steps for
\* every object, app and prompt: open of the app (the sentinel when the app
\* is unresolved), then assert of the token "opened".
C8_FallbackPlan ==
    Planning /\ locals.intent = None =>
        Built = << [action |-> Chars("open"),
                    app |-> IF locals.app = None THEN UnknownApp
                            ELSE locals.app],
                   [action |-> Chars("assert"), token |-> Chars("opened")] >>

C8_Witness ==
    /\ pc = "planned"
    /\ locals.intent = None
    /\ locals.app = None
    /\ locals.obj # None
    /\ Len(load_steps(stepsFile)) = 2
    /\ load_steps(stepsFile)[2].token = Chars("opened")

\* The keywords of the filter criteria of the prompt plan() holds.
CriteriaKeywords ==
    LET criteria == extract_filter_value(locals.prompt) IN
    IF criteria = None THEN << >> ELSE AlphaRuns(criteria)

\* The object class _build_steps works with.
ObjOrItem == IF locals.obj = None THEN Chars("item") ELSE locals.obj

AppOrSentinel == IF locals.app = None THEN UnknownApp ELSE locals.app

\* C9 as stated: a filter plan is open, goto, a click opening the filter
\* control, one click per criteria keyword, and an assert: 4 + keywords steps.
C9_ClickPerKeyword ==
    Planning /\ locals.intent = Chars("filter") =>
        LET kws == CriteriaKeywords IN
        /\ Len(Built) = 4 + Len(kws)
        /\ Built[1].action = Chars("open")
        /\ Built[2].action = Chars("goto")
        /\ \A n \in 3..(3 + Len(kws)) :
              n <= Len(Built) /\ Built[n].action = Chars("click")
        /\ \A n \in 1..Len(kws) :
              3 + n <= Len(Built) /\ Get(Built[3 + n], "text") = kws[n]
        /\ Built[Len(Built)].action = Chars("assert")

\* C9 amended: a filter plan is always the six steps open(app),
\* goto("{object}s"), click("filter"), fill("query", criteria) with the whole
\* criteria string in one fill step ("<AUTO_FILTER>" when the prompt has
\* none), submit, assert("filtered"), whatever the number of keywords.
C9_FilterPlan ==
    Planning /\ locals.intent = Chars("filter") =>
        Built = << [action |-> Chars("open"), app |-> AppOrSentinel],
                   [action |-> Chars("goto"),
                    section |-> ObjOrItem \o Chars("s")],
                   [action |-> Chars("click"), text |-> Chars("filter")],
                   [action |-> Chars("fill"), field |-> Chars("query"),
                    val |-> IF extract_filter_value(locals.prompt) = None
                            THEN Chars("<AUTO_FILTER>")
                            ELSE extract_filter_value(locals.prompt)],
                   [action |-> Chars("submit")],
                   [action |-> Chars("assert"),
                    token |-> Chars("filtered")] >>

\* A filter plan written for a prompt with two criteria keywords: one fill
\* step carries both.
C9_Witness ==
    /\ pc = "planned"
    /\ locals.intent = Chars("filter")
    /\ Len(CriteriaKeywords) = 2
    /\ Len(load_steps(stepsFile)) = 6
    /\ load_steps(stepsFile)[4].val = Chars("priority high")

\* The (app, object) pairs _steps_create has a hand-authored branch for.
SpecificPairs ==
    {<< Chars("Notion"), Chars("page") >>,
     << Chars("Asana"), Chars("project") >>,
     << Chars("Linear"), Chars("project") >>,
     << Chars("Linear"), Chars("issue") >>}

\* The generic create plan with a given value in its fill step.
GenericPlan(value) ==
    << [action |-> Chars("open"), app |-> AppOrSentinel],
       [action |-> Chars("goto"), section |-> ObjOrItem \o Chars("s")],
       [action |-> Chars("click"), text |-> Chars("new ") \o ObjOrItem],
       [action |-> Chars("fill"), field |-> Chars("name"), val |-> value],
       [action |-> Chars("submit")],
       [action |-> Chars("assert"), token |-> Chars("created")] >>

ExtractedName ==
    extract_possible_name(locals.prompt, ObjOrItem, AppOrSentinel)

\* C10 as stated: without a hand-authored template the create plan is the
\* generic one and its fill step carries the extracted name.
C10_GenericWithName ==
    Planning /\ locals.intent = Chars("create") =>
        (<< AppOrSentinel, ObjOrItem >> \notin SpecificPairs
            <=> Built = GenericPlan(ExtractedName))

\* C10 amended: for a create intent the plan is the generic one, open(app),
\* goto("{object}s"), click("new {object}"), fill("name", title), submit,
\* assert("created"), if and only if no hand-authored (app, object) template
\* matches, where title is the extracted name, or "<AUTO_NAME>" when the
\* prompt yields no name.
C10_GenericTemplate ==
    Planning /\ locals.intent = Chars("create") =>
        (<< AppOrSentinel, ObjOrItem >> \notin SpecificPairs
            <=> Built = GenericPlan(IF ExtractedName = None
                                    THEN Chars("<AUTO_NAME>")
                                    ELSE ExtractedName))

\* A generic create plan written for a pair without a template, once with an
\* extracted name.
C10_Witness ==
    /\ pc = "planned"
    /\ locals.intent = Chars("create")
    /\ locals.app = Chars("Notion")
    /\ locals.obj = Chars("issue")
    /\ ExtractedName = Chars("login bug on linear")
    /\ load_steps(stepsFile) = GenericPlan(ExtractedName)


PromptTokens == Split(Lower(locals.prompt))

\* The tokens after the object noun, without a trailing "<preposition> <app>".
Remaining ==
    StripTrailingApp(DropFirst(PromptTokens,
                               IndexOf(PromptTokens, ObjOrItem) + 1),
                     AppOrSentinel)

\* The extracted name is what is left of toks from position first on once
\* leading filler words and app tokens are dropped, None when nothing is.
NameFrom(toks, first) ==
    \E m \in first..(Len(toks) + 1) :
        /\ \A x \in first..(m - 1) :
              toks[x] \in Fillers \cup {Lower(AppOrSentinel)}
        /\ ExtractedName = IF m > Len(toks) THEN None
                           ELSE JoinSpace(DropFirst(toks, m))

\* The least element of a non-empty set of positions.
Least(set) == CHOOSE j \in set : \A m \in set : j <= m

OccursAt(s, kw, n) ==
    /\ n >= 1
    /\ n + Len(kw) - 1 <= Len(s)
    /\ SubSeq(s, n, n + Len(kw) - 1) = kw

Occurs(s, kw) == \E n \in 1..Len(s) : OccursAt(s, kw, n)

\* The text of s after the first occurrence of kw, without the whitespace
\* around it.
Following(s, kw) ==
    LET n == CHOOSE x \in 1..Len(s) :
                 /\ OccursAt(s, kw, x)
                 /\ \A y \in 1..(x - 1) : ~OccursAt(s, kw, y)
    IN  Strip(SubSeq(s, n + Len(kw), Len(s)))

\* The lower-cased prompt extract_filter_value works on, and its result.
LowerPrompt == Lower(locals.prompt)

Criteria == extract_filter_value(locals.prompt)

Filtering == Planning /\ locals.intent = Chars("filter")

\* C14 as stated: the criteria are the text after the first " by " whenever
\* the prompt contains " by ", otherwise the text after the first " with ",
\* and None if and only if neither keyword appears.
C14_NoneIffNoKeyword ==
    Filtering =>
        /\ Occurs(LowerPrompt, Chars(" by "))
              => Criteria = Following(LowerPrompt, Chars(" by "))
        /\ ~Occurs(LowerPrompt, Chars(" by "))
              /\ Occurs(LowerPrompt, Chars(" with "))
              => Criteria = Following(LowerPrompt, Chars(" with "))
        /\ Criteria = None
              <=> /\ ~Occurs(LowerPrompt, Chars(" by "))
                  /\ ~Occurs(LowerPrompt, Chars(" with "))

\* C14 amended: " by " is tried before " with " wherever they stand in the
\* prompt; the criteria are the lower-cased text after the first occurrence
\* of the keyword found, without surrounding whitespace, and None when that
\* text is empty (without trying " with ") or when neither keyword appears;
\* "filter issues by priority high" yields "priority high".
C14_FilterValue ==
    Filtering =>
        LET kw == IF Occurs(LowerPrompt, Chars(" by ")) THEN Chars(" by ")
                  ELSE Chars(" with ")
        IN  /\ IF ~Occurs(LowerPrompt, kw) THEN Criteria = None
               ELSE IF Following(LowerPrompt, kw) = <<>> THEN Criteria = None
               ELSE Criteria = Following(LowerPrompt, kw)
            /\ locals.prompt = Chars("filter issues by priority high")
                  => Criteria = Chars("priority high")

\* A filter plan compiled for a prompt in which " with " stands before
\* " by ": the criteria are what follows " by ".
C14_Witness ==
    /\ pc = "planned"
    /\ locals.intent = Chars("filter")
    /\ locals.prompt =
          Chars("Filter issues with label bug by Priority High")
    /\ \E n, m \in 1..Len(LowerPrompt) :
          /\ n < m
          /\ OccursAt(LowerPrompt, Chars(" with "), n)
          /\ OccursAt(LowerPrompt, Chars(" by "), m)
    /\ Criteria = Chars("priority high")

\* plan() has computed the normalized prompt.
Normalized == scan.phase # "idle"

\* s is lower-cased, has no character of the set punct, no two adjacent
\* whitespace characters, and no whitespace at either end.
Clean(s, punct) ==
    /\ s = Lower(s)
    /\ \A n \in 1..Len(s) : s[n] \notin punct
    /\ \A n \in 1..(Len(s) - 1) :
          ~(s[n] \in Whitespace /\ s[n + 1] \in Whitespace)
    /\ s # << >> => s[1] \notin Whitespace /\ s[Len(s)] \notin Whitespace

\* C15 as stated: the output of _normalize is lower-cased, contains no
\* punctuation character at all, no run of more than one whitespace
\* character, and no leading or trailing whitespace.
C15_NoPunctuationAtAll ==
    Normalized =>
        Clean(scan.norm, Punctuation \cup {LeftQuote, RightQuote, Ellipsis})

\* C15 amended: the output of _normalize is lower-cased, contains none of
\* the 32 ASCII punctuation characters of string.punctuation, no run of
\* more than one whitespace character, and no leading or trailing
\* whitespace; punctuation outside ASCII stays.
C15_Normalized ==
    Normalized =>
        /\ Clean(scan.norm, Punctuation)
        /\ \A c \in {LeftQuote, RightQuote, Ellipsis} :
              (\E n \in 1..Len(locals.prompt) : locals.prompt[n] = c)
                  => \E n \in 1..Len(scan.norm) : scan.norm[n] = c

\* A prompt with capitals, a blank before its last punctuation mark: the
\* normalized prompt has neither, and no blank is left at its end.
C15_Witness ==
    /\ Normalized
    /\ locals.prompt = Chars("Open Notion !")
    /\ scan.norm = Chars("open notion")

\* The matcher has returned.
Parsed == scan.phase = "parsed"

\* The positions of the tokens that have a close match among words.
Hits(words) ==
    {n \in 1..Len(scan.tokens) :
        get_close_matches(scan.tokens[n], words) # << >>}

\* The close match of the earliest token that has one.
FirstMatch(words) ==
    get_close_matches(scan.tokens[Least(Hits(words))], words)[1]

AppWords == {apps_lower[n] : n \in 1..Len(apps_lower)}

\* C16: the app, the intent and the object are each decided by the earliest
\* token that has a close match (ratio at or above the cutoff) in the
\* respective vocabulary, each on its own; the app is an element of the
\* canonical list; what no token matches is None; and a value once resolved
\* is never changed by a later token.
C16_FirstMatch ==
    /\ [](Parsed =>
            /\ IF Hits(AppWords) = {} THEN locals.app = None
               ELSE /\ \E n \in 1..Len(app_names) : locals.app = app_names[n]
                    /\ Lower(locals.app) = FirstMatch(AppWords)
            /\ IF Hits(DOMAIN intent_vocab) = {} THEN locals.intent = None
               ELSE locals.intent = intent_vocab[FirstMatch(DOMAIN intent_vocab)]
            /\ IF Hits(DOMAIN object_vocab) = {} THEN locals.obj = None
               ELSE locals.obj = object_vocab[FirstMatch(DOMAIN object_vocab)])
    /\ [][/\ locals.app # None => locals'.app = locals.app
          /\ locals.intent # None => locals'.intent = locals.intent
          /\ locals.obj # None => locals'.obj = locals.obj]_vars

\* "open liner, then Notion!": the second token is close to "linear", the
\* fourth is "notion" itself, and the app is Linear; the intent comes from
\* the first token and no token names an object.
C16_Witness ==
    /\ Parsed
    /\ locals.prompt = Chars("open liner, then Notion!")
    /\ Hits(AppWords) = {2, 4}
    /\ ratio(apps_lower[1], scan.tokens[2]) = << 10, 11 >>
    /\ ratio(apps_lower[2], scan.tokens[4]) = << 12, 12 >>
    /\ locals.app = Chars("Linear")
    /\ locals.intent = Chars("open")
    /\ locals.obj = None

\* C17: steps are processed one at a time in plan order: the handler of
\* step k has finished or failed when the state of step k is captured, every
\* earlier state is in the log when a handler runs, the page of the session
\* changes only while a handler runs, the log grows only by the capture of the current
\* step, and the k-th entry has index k, the action tag and state label of
\* the k-th plan step and the screenshot name "<2-digit k>_<action>.png".
C17_Sequential ==
    /\ [](/\ pc \in {"step", "cascade"} => Len(states) = i - 1
          /\ pc = "step" => result = "none"
          /\ pc = "capture" => result # "none" /\ Len(states) = i - 1
          /\ \A n \in 1..Len(states) :
                /\ n <= Len(steps)
                /\ states[n].index = n
                /\ states[n].step = steps[n]
                /\ states[n].action = Get(steps[n], "action")
                /\ states[n].state_label = Get(steps[n], "state_label")
                /\ "action" \in DOMAIN steps[n] =>
                      states[n].screenshot =
                          << DigitChars[(n \div 10) + 1],
                             DigitChars[(n % 10) + 1] >>
                          \o Chars("_") \o steps[n].action \o Chars(".png"))
    /\ [][/\ pc # "launch" /\ page' # page => pc \in {"step", "cascade"}
          /\ states' # states =>
                /\ pc = "capture"
                /\ Len(states') = Len(states) + 1
                /\ SubSeq(states', 1, Len(states)) = states
                /\ i' = i + 1]_vars

\* The run of the Apollo plan has finished: six entries, the first named
\* 01_open.png and the last 06_assert.png.
C17_Witness ==
    /\ pc = "done"
    /\ Len(states) = 6
    /\ states[1].screenshot = Chars("01_open.png")
    /\ states[6].screenshot = Chars("06_assert.png")
    /\ states[6].index = 6
    /\ Sigs(steps) = ApolloPlan

\* The steps the executor reads from the plan file plan() wrote.
Compiled == pc = "planned" /\ locals.prompt # None

\* C18 as stated: every step of a compiled plan carries a tag of the set
\* {open, navigate, click, fill, select, submit, assert}.
C18_ClosedActionSet ==
    Compiled =>
        \A n \in 1..Len(load_steps(stepsFile)) :
            Get(load_steps(stepsFile)[n], "action")
                \in {Chars("open"), Chars("navigate"), Chars("click"),
                     Chars("fill"), Chars("select"), Chars("submit"),
                     Chars("assert")}

\* C18 amended: every step of a compiled plan carries a tag of the set
\* {open, goto, click, fill, submit, assert}; each of them is a tag the
\* dispatcher has a branch for, so a compiled plan never reaches the
\* unknown-action branch.
C18_CompiledTags ==
    Compiled =>
        LET loaded == load_steps(stepsFile) IN
        \A n \in 1..Len(loaded) :
            /\ "action" \in DOMAIN loaded[n]
            /\ loaded[n].action
                  \in {Chars("open"), Chars("goto"), Chars("click"),
                       Chars("fill"), Chars("submit"), Chars("assert")}
            /\ loaded[n].action \in RecognisedActions

\* A delete plan in its file: six steps, the second tagged "goto", the
\* fifth "submit".
C18_Witness ==
    /\ Compiled
    /\ locals.intent = Chars("delete")
    /\ Len(load_steps(stepsFile)) = 6
    /\ load_steps(stepsFile)[2].action = Chars("goto")
    /\ load_steps(stepsFile)[5].action = Chars("submit")

\* The browser context of the run has been created.
SessionStarted == session.state # "none"

\* The positions of the open steps of the loaded plan.
OpenSteps == {n \in 1..Len(steps) : Get(steps[n], "action") = Chars("open")}

\* The snapshot file of the app the n-th step names, None without one.
SnapshotOf(n) == APP_STATE_FILES(Get(steps[n], "app"))

\* C19 as stated: the session starts from a snapshot if and only if a
\* snapshot file is present for the app named in the first open step of the
\* plan, and is anonymous in every other case.
C19_FirstOpenStep ==
    SessionStarted =>
        (session.storage_state # None
            <=> /\ OpenSteps # {}
                /\ SnapshotOf(Least(OpenSteps)) # None
                /\ SnapshotOf(Least(OpenSteps)) \in disk)

\* C19 amended: the session starts from a snapshot if and only if a
\* snapshot file is present for the app named in the first open step that
\* names an app (open steps without an app are passed over), and it is that
\* file; in every other case the session is anonymous.
C19_SessionSnapshot ==
    SessionStarted =>
        LET named == {n \in OpenSteps : Truthy(Get(steps[n], "app"))} IN
        IF /\ named # {}
           /\ SnapshotOf(Least(named)) # None
           /\ SnapshotOf(Least(named)) \in disk
        THEN session.storage_state = SnapshotOf(Least(named))
        ELSE session.storage_state = None

\* The session of a compiled Linear plan, started from linear_state.json.
C19_Witness ==
    /\ session.state = "open"
    /\ pc = "step"
    /\ i = 1
    /\ Len(steps) = 6
    /\ Sig(steps[1]) = << Chars("open"), Chars("Linear") >>
    /\ Chars("linear_state.json") \in disk
    /\ session.storage_state = Chars("linear_state.json")

\* The loop over the steps has ended and nothing has been executed since:
\* the state of the final step is in the log and the session is still open.
LoopJustEnded ==
    /\ pc = "close"
    /\ session.state = "open"
    /\ Len(states) = Len(steps)

\* C20: after the final step has been executed and its state captured, a
\* grace wait takes place before the session is torn down: the step that
\* follows the end of the loop never closes the session.
C20_GraceWaitBeforeClose ==
    [][LoopJustEnded => session'.state # "closed"]_vars

\* The handler of the current step has ended with its "not found" warning:
\* every try-block of its cascade was left without a return.
Exhausted ==
    /\ pc = "capture"
    /\ result = "not_found"
    /\ Get(steps[i], "action") \in CascadeActions

\* C21: when every resolution strategy of a step's cascade has failed (the
\* handler ended with its "not found" warning) the step has performed no UI
\* mutation on the session: no click, no fill, no keyboard input.
C21_ExhaustedWithoutMutation ==
    Exhausted => muts = <<>>

\* do_click is running its cascade for the current step, or has just ended.
Clicking ==
    /\ pc \in {"cascade", "capture"}
    /\ k > 0
    /\ Get(steps[i], "action") = Chars("click")

\* C22 as stated: the first strategy that locates an element performs the
\* click and the cascade stops, so while do_click is still trying strategies
\* no earlier strategy has located an element.
C22_StopsAtFirstLocated ==
    (Clicking /\ pc = "cascade") => ~blocked

\* The strategies of do_click for the click texts of the compiled plans, as
\* pairs of locator and target, in the order of the claim.
ClickOrder(text) ==
    IF Lower(text) = Chars("new project")
    THEN << << "role_button", Chars("new project") >>,
            << "role_button", Chars("Blank project") >>,
            << "role_button", Chars("Create project") >>,
            << "role_button", Chars("Add project") >>,
            << "role_button", Chars("New project") >>,
            << "role_button", Chars("Create") >>,
            << "text", text >> >>
    ELSE << << "role_button", Lower(text) >>, << "text", text >> >>

\* The k-th strategy of the claimed order is the one do_click is at.
AtClickOrder ==
    LET order == ClickOrder(steps[i].text)
        a == Cascade(steps[i])[k]
    IN  /\ k <= Len(order)
        /\ << a.strategy, a.target >> = order[k]
        /\ a.act = "click"

\* C22 amended: do_click tries the role-based button match on the step text,
\* then the synonym labels in listed order, then the page-wide text search,
\* one after the other; the first strategy whose click succeeds is the only
\* one that clicks and ends the cascade, and a strategy that located an
\* element but whose click raised is followed by the next strategy.
C22_ClickCascade ==
    /\ [](Clicking => AtClickOrder)
    /\ [][(Clicking /\ pc = "cascade") =>
            \/ /\ pc' = "cascade"
               /\ k' = k + 1
               /\ muts' = muts
            \/ /\ pc' = "capture"
               /\ k' = k
               /\ result' = "ok"
               /\ muts' = << Mutation(Cascade(steps[i])[k], "click") >>
            \/ /\ pc' = "capture"
               /\ k' = k
               /\ k = Len(ClickOrder(steps[i].text))
               /\ result' = "not_found"
               /\ muts' = muts]_vars

\* The button of the step text and the button "Blank project" were located
\* but could not be clicked; the third strategy clicked "Create project".
C22_Witness ==
    /\ Clicking
    /\ pc = "capture"
    /\ result = "ok"
    /\ k = 3
    /\ blocked
    /\ muts = << [act |-> "click", strategy |-> "role_button",
                  target |-> Chars("Create project")] >>

\* do_fill is running its cascade for the current step, or has just ended.
Filling ==
    /\ pc \in {"cascade", "capture"}
    /\ k > 0
    /\ Get(steps[i], "action") = Chars("fill")

\* The six strategies of do_fill in the order of the claim: the locator, what
\* it is given, and the operation that writes the value.
FillOrder(field) ==
    << << "label", field, "fill" >>,
       << "placeholder", field, "fill" >>,
       << "attr", field, "fill" >>,
       << "role_textbox", <<>>, "fill" >>,
       << "input_textarea", <<>>, "fill" >>,
       << "text", field, "type" >> >>

\* The mutations of the running handler that write a value.
Writes == {n \in 1..Len(muts) : muts[n].act \in {"fill", "type"}}

\* C23: do_fill tries label, placeholder, aria-label/name attribute, textbox
\* role, input/textarea and last click-on-text-then-type, in that order, one
\* after the other; the value is written by at most one strategy, the first
\* that succeeds, which ends the cascade; the keyboard fallback is reached
\* only after the five earlier strategies failed, nothing having been
\* written.
C23_FillCascade ==
    /\ [](Filling =>
            LET a == Cascade(steps[i])[k] IN
            /\ k <= 6
            /\ << a.strategy, a.target, a.act >> = FillOrder(steps[i].field)[k]
            /\ Cardinality(Writes) <= 1
            /\ \A n \in Writes : muts[n].strategy = a.strategy
            /\ (pc = "cascade" => muts = <<>>)
            /\ (Writes # {} <=> result = "ok"))
    /\ [][(Filling /\ pc = "cascade") =>
            \/ /\ pc' = "cascade"
               /\ k' = k + 1
               /\ muts' = muts
            \/ /\ pc' = "capture"
               /\ k' = k]_vars

\* The five locator strategies failed, one of them on a field it had found,
\* and the value was typed after a click on the text of the field name.
C23_Witness ==
    /\ Filling
    /\ pc = "capture"
    /\ result = "ok"
    /\ k = 6
    /\ blocked
    /\ muts = << [act |-> "click", strategy |-> "text",
                  target |-> Chars("Name")],
                 [act |-> "type", strategy |-> "text",
                  target |-> Chars("Name")] >>

\* do_submit is running its cascade for the current step, or has just ended.
Submitting ==
    /\ pc \in {"cascade", "capture"}
    /\ k > 0
    /\ Get(steps[i], "action") = Chars("submit")

\* The confirmation labels in the order of the claim.
SubmitOrder ==
    << Chars("Create project"), Chars("Create"), Chars("Save"),
       Chars("Submit"), Chars("Done"), Chars("OK"), Chars("Continue"),
       Chars("Add") >>

\* C24: do_submit tries the buttons "Create project", "Create", "Save",
\* "Submit", "Done", "OK", "Continue", "Add" in that order, one after the
\* other, and stops at the first success: at most one button is clicked, it
\* is the label the cascade is at, every earlier label having failed; when no
\* label succeeds nothing is clicked and no error is raised.
C24_SubmitCascade ==
    /\ [](Submitting =>
            LET a == Cascade(steps[i])[k] IN
            /\ k <= Len(SubmitOrder)
            /\ a.strategy = "role_button"
            /\ a.target = SubmitOrder[k]
            /\ (pc = "cascade" => muts = <<>>)
            /\ (pc = "capture" =>
                  /\ result \in {"ok", "not_found"}
                  /\ error = "none"
                  /\ (result = "ok" => muts = << Mutation(a, "click") >>)
                  /\ (result = "not_found" =>
                        muts = <<>> /\ k = Len(SubmitOrder))))
    /\ [][(Submitting /\ pc = "cascade") =>
            \/ /\ pc' = "cascade"
               /\ k' = k + 1
               /\ muts' = muts
            \/ /\ pc' = "capture"
               /\ k' = k]_vars

\* "Create project" and "Create" were not found, "Save" was clicked.
C24_Witness ==
    /\ Submitting
    /\ pc = "capture"
    /\ result = "ok"
    /\ k = 3
    /\ ~blocked
    /\ muts = << [act |-> "click", strategy |-> "role_button",
                  target |-> Chars("Save")] >>

\* No label matched a button: the handler ended with its warning.
C24_WitnessNothingClicked ==
    /\ Submitting
    /\ pc = "capture"
    /\ result = "not_found"
    /\ muts = <<>>

\* do_assert has ended for the current step.
Asserted ==
    /\ pc = "capture"
    /\ Get(steps[i], "action") = Chars("assert")

\* C25: do_assert ends in a pass or in a logged non-fatal failure (missing
\* token, unreadable page, token not found): in every case it raises no
\* error and performs no mutation of the session.
C25_AssertNeverRaises ==
    Asserted =>
        /\ result \in {"passed", "missing_field", "unreadable", "not_found"}
        /\ muts = <<>>

\* C26: within the cascade of one step no resolution attempt is repeated:
\* the try-block the handler is at asks the page something different from
\* every try-block before it, whatever the step text.
C26_NoAttemptRepeated ==
    pc = "cascade" =>
        \A n \in 1..(k - 1) :
            Method(Cascade(steps[i])[n]) # Method(Cascade(steps[i])[k])

\* C27: for every tag perform_step recognises, dispatch invokes the handler
\* of that tag and raises no error itself: when a step with a recognised tag
\* ends in an exception, the exception is that of the tag's handler.
C27_DispatchRaisesNothing ==
    [][(/\ pc = "step"
        /\ CurrentAction \in RecognisedActions
        /\ result' = "raised") => CurrentAction \in DefinedHandlers]_vars

\* C28: every plan _build_steps returns, whatever the intent, the object,
\* the app (resolved or not) and the prompt, is non-empty, starts with an
\* open step that carries a non-empty app value (the resolved app, or the
\* sentinel) and ends with an assert step.
C28_PlanShape ==
    Planning =>
        LET built == Built IN
        /\ Len(built) >= 1
        /\ Get(built[1], "action") = Chars("open")
        /\ Truthy(Get(built[1], "app"))
        /\ Get(built[1], "app") = AppOrSentinel
        /\ Get(built[Len(built)], "action") = Chars("assert")

\* The plan of an open intent with neither app nor object resolved.
C28_Witness ==
    /\ Planning
    /\ locals.intent = Chars("open")
    /\ locals.app = None
    /\ locals.obj = None
    /\ Sigs(Built) = << << Chars("open"), Chars("<UNKNOWN_APP>") >>,
                        << Chars("goto"), Chars("items") >>,
                        << Chars("assert"), Chars("item") >> >>

====
